---- MODULE Spec2Model ----
(***************************************************************************)
(* Model of the OCI GenAI provider's translation engine                    *)
(* (src/unnamed/part_003): the streaming protocol parser (doStream,        *)
(* handleSSEStream, handleCohereSSEEvent, handleGenericSSEEvent,           *)
(* handleNonStreamingResponse), the non-streaming response normalizer      *)
(* (doGenerate, mapFinishReason), the tool-schema sanitizer                *)
(* (cleanJsonSchema) and the request builder (getSWEPreset,                *)
(* getModelFamily, buildChatRequest and the three message converters).     *)
(*                                                                         *)
(* Strings that the code slices or concatenates (text, reasoning, tool     *)
(* input) are sequences of one-character strings.  An absent or falsy      *)
(* JSON field is the empty string "" or the empty sequence <<>>.           *)
(* Token usage is not modelled.                                            *)
(***************************************************************************)
EXTENDS Integers, Sequences, FiniteSets, TLC

VARIABLES
    pc,                \* position of the operation under way; a stream is
                       \* "closed" after finish, "failed" after error
    modelFamily,       \* getModelFamily(modelId)
    supportsReasoning, \* swePreset.supportsReasoning
    events,            \* parts enqueued on the stream controller, in order
    textStarted,       \* handleSSEStream: let textStarted
    reasoningStarted,  \* handleSSEStream: let reasoningStarted
    finishReason,      \* handleSSEStream: let finishReason
    toolCalls,         \* handleSSEStream: Map toolCalls, in insertion order
    toolCallsStarted,  \* handleSSEStream: Set toolCallsStarted
    genCount,          \* number of ids generateId() has handed out
    nRead,             \* data lines read from the SSE transport so far
    flushAt,           \* length of events when the natural-end flush began
    buffer,            \* handleSSEStream: let buffer, between two reads
    reference,         \* handleSSEStream run on the same lines without the
                       \* data lines whose payload does not parse
    malformedAt,       \* number of the first line whose payload did not parse
    response,          \* the complete chat response client.chat resolved with
    genResult,         \* doGenerate: the returned {content, finishReason}
    schemaIn,          \* cleanJsonSchema: the schema tree given
    schemaOut,         \* cleanJsonSchema: the cleaned tree
    modelId,           \* OCIChatLanguageModelV2.modelId
    options,           \* the LanguageModelV2CallOptions of the call
    request            \* the chat request built from options

vars == <<pc, modelFamily, supportsReasoning, events, textStarted,
          reasoningStarted, finishReason, toolCalls, toolCallsStarted,
          genCount, nRead, flushAt, buffer, reference, malformedAt, response,
          genResult, schemaIn, schemaOut, modelId, options, request>>

streamVars == <<events, textStarted, reasoningStarted, finishReason,
                toolCalls, toolCallsStarted, genCount, nRead, flushAt,
                buffer, reference, malformedAt>>

\* Bounds of the model.
MaxSSEEvents == 3

Families == {"cohere", "cohere-v2", "generic"}

(***************************************************************************)
(* Sequence helpers.                                                       *)
(***************************************************************************)
Range(s) == {s[i] : i \in 1..Len(s)}

Last(s) == s[Len(s)]

\* The ids generateId() returns: fresh on every call.
GenId(n) == <<"oci", n>>

NoId == <<>>

textId == GenId(1)

reasoningId == GenId(2)

\* One stream part (LanguageModelV2StreamPart), all fields present.
Ev(type, id, toolName, delta, fr) ==
    [type |-> type, id |-> id, toolName |-> toolName, delta |-> delta,
     finishReason |-> fr]

EvT(type) == Ev(type, NoId, "", <<>>, "")

EvId(type, id) == Ev(type, id, "", <<>>, "")

(***************************************************************************)
(* mapFinishReason                                                         *)
(***************************************************************************)
mapFinishReasonUnknownIsError(raw) ==
    CASE raw \in {"MAX_TOKENS", "length"} -> "length"
      [] raw \in {"COMPLETE", "stop", "STOP"} -> "stop"
      [] raw \in {"TOOL_CALL", "tool_calls", "TOOL_USE"} -> "tool-calls"
      [] raw \in {"CONTENT_FILTER", "content_filter"} -> "content-filter"
      [] OTHER -> "error"

mapFinishReason(raw) ==
    CASE raw \in {"MAX_TOKENS", "length"} -> "length"
      [] raw \in {"COMPLETE", "stop", "STOP"} -> "stop"
      [] raw \in {"TOOL_CALL", "tool_calls", "TOOL_USE"} -> "tool-calls"
      [] raw \in {"CONTENT_FILTER", "content_filter"} -> "content-filter"
      [] OTHER -> "stop"

(***************************************************************************)
(* The open-span state of one handleSSEStream invocation, as one record:   *)
(* out = parts enqueued by the handler, ts/rs/fr = the closure variables   *)
(* textStarted/reasoningStarted/finishReason that updateState assigns,     *)
(* tcs/started = the shared Map and Set, gen = generateId() calls so far.  *)
(***************************************************************************)
MapHas(tcs, id) == \E i \in 1..Len(tcs) : tcs[i].id = id

MapIndex(tcs, id) == CHOOSE i \in 1..Len(tcs) : tcs[i].id = id

MapGet(tcs, id) == tcs[MapIndex(tcs, id)]

\* Map.set: a new key goes last, an existing key keeps its place.
MapSet(tcs, id, toolName, input) ==
    LET entry == [id |-> id, toolName |-> toolName, input |-> input]
    IN IF MapHas(tcs, id)
       THEN [tcs EXCEPT ![MapIndex(tcs, id)] = entry]
       ELSE Append(tcs, entry)

\* JSON.stringify(parameters || {}): absent parameters print as "{}".
Stringify(args) == IF args = <<>> THEN <<"{", "}">> ELSE args

Enq(acc, e) == [acc EXCEPT !.out = Append(@, e)]

\* tc.id || generateId()
ResolveId(acc, id) == IF id # NoId THEN id ELSE GenId(acc.gen + 1)

UseId(acc, id) == IF id # NoId THEN acc ELSE [acc EXCEPT !.gen = @ + 1]

\* if (!state.textStarted) { enqueue text-start; updateState({textStarted: true}) }
\* state.textStarted is the value copied when the handler was called.
OpenText(acc, snapT) ==
    IF ~snapT
    THEN [Enq(acc, EvId("text-start", textId)) EXCEPT !.ts = TRUE]
    ELSE acc

OpenReasoning(acc, snapR) ==
    IF ~snapR
    THEN [Enq(acc, EvId("reasoning-start", reasoningId)) EXCEPT !.rs = TRUE]
    ELSE acc

TextDelta(acc, snapT, text) ==
    Enq(OpenText(acc, snapT), Ev("text-delta", textId, "", text, ""))

ReasoningDelta(acc, snapR, text) ==
    Enq(OpenReasoning(acc, snapR),
        Ev("reasoning-delta", reasoningId, "", text, ""))

\* A tool call delivered whole: recorded and started the first time its id
\* is seen (part_003:485-494, 502-511, 716-725, 734-745).
AtomicToolCall(acc, tc) ==
    LET id == ResolveId(acc, tc.id)
        a1 == UseId(acc, tc.id)
        input == Stringify(tc.args)
    IN IF ~MapHas(a1.tcs, id)
       THEN Enq(Enq([a1 EXCEPT !.tcs = MapSet(@, id, tc.toolName, input),
                               !.started = @ \cup {id}],
                    Ev("tool-input-start", id, tc.toolName, <<>>, "")),
                Ev("tool-input-delta", id, "", input, ""))
       ELSE a1

RECURSIVE AtomicToolCalls(_, _)
AtomicToolCalls(acc, tcs) ==
    IF tcs = <<>> THEN acc
    ELSE AtomicToolCalls(AtomicToolCall(acc, Head(tcs)), Tail(tcs))

\* One element of event.message.content (part_003:475-496 and 706-727);
\* toolTypes are the part types the family reads as a tool call.
ContentPart(acc, part, snapT, toolTypes) ==
    LET a1 == IF part.ptype = "TEXT" /\ part.text # <<>>
              THEN TextDelta(acc, snapT, part.text)
              ELSE acc
    IN IF part.ptype \in toolTypes THEN AtomicToolCall(a1, part) ELSE a1

RECURSIVE ContentParts(_, _, _, _)
ContentParts(acc, parts, snapT, toolTypes) ==
    IF parts = <<>> THEN acc
    ELSE ContentParts(ContentPart(acc, Head(parts), snapT, toolTypes),
                      Tail(parts), snapT, toolTypes)

\* SetFinish that also enqueues a finish part at once.
SetFinishAndEmit(acc, raw) ==
    IF raw # ""
    THEN Enq([acc EXCEPT !.fr = mapFinishReason(raw)],
             Ev("finish", NoId, "", <<>>, mapFinishReason(raw)))
    ELSE acc

\* updateState({ finishReason: mapFinishReason(raw) }) when raw is truthy
SetFinish(acc, raw) ==
    IF raw # "" THEN [acc EXCEPT !.fr = mapFinishReason(raw)] ELSE acc

(***************************************************************************)
(* handleCohereSSEEvent: one parsed event e, with the values of            *)
(* textStarted and reasoningStarted copied into `state` at the call.       *)
(***************************************************************************)
\* toolCalls.set without a start: the default branch's resp.toolCalls.
RECURSIVE RecordToolCalls(_, _)
RecordToolCalls(acc, tcs) ==
    IF tcs = <<>> THEN acc
    ELSE LET tc == Head(tcs)
             id == ResolveId(acc, tc.id)
             a1 == UseId(acc, tc.id)
         IN RecordToolCalls(
                [a1 EXCEPT !.tcs = MapSet(@, id, tc.toolName, Stringify(tc.args))],
                Tail(tcs))

\* case 'tool-call-start'
CohereToolCallStart(acc, e) ==
    IF e.tcData
    THEN LET id == ResolveId(acc, e.tcId)
             a1 == UseId(acc, e.tcId)
         IN Enq([a1 EXCEPT !.tcs = MapSet(@, id, e.tcName, <<>>),
                           !.started = @ \cup {id}],
                Ev("tool-input-start", id, e.tcName, <<>>, ""))
    ELSE acc

\* case 'tool-call-delta': the delta goes to the last key of the Map.
CohereToolCallDelta(acc, e) ==
    IF e.dtext # <<>> /\ acc.tcs # <<>>
    THEN LET cur == Last(acc.tcs).id
         IN Enq([acc EXCEPT !.tcs[Len(acc.tcs)].input = @ \o e.dtext],
                Ev("tool-input-delta", cur, "", e.dtext, ""))
    ELSE acc

\* default: a nested response object
CohereDefault(acc, e, snapT) ==
    IF e.resp
    THEN LET a1 == IF e.respText # <<>> /\ ~snapT
                   THEN Enq(OpenText(acc, snapT),
                            Ev("text-delta", textId, "", e.respText, ""))
                   ELSE acc
             a2 == RecordToolCalls(a1, e.respToolCalls)
         IN SetFinish(a2, e.respFinishReason)
    ELSE acc

CohereSwitch(acc, e, snapT, snapR) ==
    CASE e.etype = "message-start" -> acc
      [] e.etype = "content-start" -> OpenText(acc, snapT)
      [] e.etype = "content-delta" ->
            IF e.dtext # <<>> THEN TextDelta(acc, snapT, e.dtext) ELSE acc
      [] e.etype = "content-end" ->
            IF snapT
            THEN [Enq(acc, EvId("text-end", textId)) EXCEPT !.ts = FALSE]
            ELSE acc
      [] e.etype \in {"thinking-start", "reasoning-start"} ->
            OpenReasoning(acc, snapR)
      [] e.etype \in {"thinking-delta", "reasoning-delta", "tool-plan-delta"} ->
            IF e.dtext # <<>> THEN ReasoningDelta(acc, snapR, e.dtext) ELSE acc
      [] e.etype \in {"thinking-end", "reasoning-end"} ->
            IF snapR
            THEN [Enq(acc, EvId("reasoning-end", reasoningId)) EXCEPT !.rs = FALSE]
            ELSE acc
      [] e.etype = "tool-call-start" -> CohereToolCallStart(acc, e)
      [] e.etype = "tool-call-delta" -> CohereToolCallDelta(acc, e)
      [] e.etype = "tool-call-end" -> acc
      [] e.etype = "message-end" -> SetFinish(acc, e.finishReason)
      [] OTHER -> CohereDefault(acc, e, snapT)

handleCohereSSEEvent(acc, e, snapT, snapR) ==
    LET a1 == ContentParts(acc, e.content, snapT, {"TOOL_CALL"})
        a2 == AtomicToolCalls(a1, e.toolCalls)
        a3 == SetFinish(a2, e.finishReason)
    IN CohereSwitch(a3, e, snapT, snapR)

(***************************************************************************)
(* handleGenericSSEEvent                                                   *)
(***************************************************************************)
\* One element of choices[0].delta.content when it is an array.
RECURSIVE ChoiceTextParts(_, _, _)
ChoiceTextParts(acc, parts, snapT) ==
    IF parts = <<>> THEN acc
    ELSE LET part == Head(parts)
             a1 == IF part.ptype = "TEXT" /\ part.text # <<>>
                   THEN TextDelta(acc, snapT, part.text)
                   ELSE acc
         IN ChoiceTextParts(a1, Tail(parts), snapT)

\* One element of choices[0].delta.tool_calls: recorded when first seen,
\* started when its first argument fragment arrives.
ChoiceToolCall(acc, tc) ==
    LET id == ResolveId(acc, tc.id)
        a1 == UseId(acc, tc.id)
        a2 == IF ~MapHas(a1.tcs, id)
              THEN [a1 EXCEPT !.tcs = MapSet(@, id, tc.toolName, <<>>)]
              ELSE a1
        existing == MapGet(a2.tcs, id)
        startName == IF existing.toolName # "" THEN existing.toolName
                     ELSE tc.toolName
        a3 == IF id \notin a2.started
              THEN Enq([a2 EXCEPT !.started = @ \cup {id}],
                       Ev("tool-input-start", id, startName, <<>>, ""))
              ELSE a2
    IN IF tc.args # <<>>
       THEN Enq([a3 EXCEPT !.tcs[MapIndex(a3.tcs, id)].input = @ \o tc.args],
                Ev("tool-input-delta", id, "", tc.args, ""))
       ELSE a2

RECURSIVE ChoiceToolCalls(_, _)
ChoiceToolCalls(acc, tcs) ==
    IF tcs = <<>> THEN acc
    ELSE ChoiceToolCalls(ChoiceToolCall(acc, Head(tcs)), Tail(tcs))

GenericChoice(acc, e, snapT, snapR, reasoning) ==
    IF e.hasChoice
    THEN LET a1 == CASE e.chKind = "array" ->
                            ChoiceTextParts(acc, e.chParts, snapT)
                     [] e.chKind = "string" /\ e.chText # <<>> ->
                            TextDelta(acc, snapT, e.chText)
                     [] OTHER -> acc
             a2 == IF e.chReasoning # <<>> /\ reasoning
                   THEN ReasoningDelta(a1, snapR, e.chReasoning)
                   ELSE a1
             a3 == ChoiceToolCalls(a2, e.chToolCalls)
         IN SetFinish(a3, e.chFinishReason)
    ELSE acc

handleGenericSSEEvent(acc, e, snapT, snapR, reasoning) ==
    LET a1 == ContentParts(acc, e.content, snapT, {"TOOL_CALL", "FUNCTION_CALL"})
        a2 == AtomicToolCalls(a1, e.toolCalls)
        a3 == SetFinish(a2, e.finishReason)
    IN GenericChoice(a3, e, snapT, snapR, reasoning)

(***************************************************************************)
(* handleNonStreamingResponse: a complete chat response replayed as a      *)
(* stream.  r is chatResult.chatResponse.                                  *)
(***************************************************************************)
chunkSize == 50

Min(a, b) == IF a < b THEN a ELSE b

\* ChunkDeltas without the last chunk when it is shorter than chunkSize.
RECURSIVE ChunkDeltasFullOnly(_, _, _)
ChunkDeltasFullOnly(type, id, s) ==
    IF Len(s) < chunkSize THEN <<>>
    ELSE <<Ev(type, id, "", SubSeq(s, 1, chunkSize), "")>>
         \o ChunkDeltasFullOnly(type, id, SubSeq(s, chunkSize + 1, Len(s)))

\* for (i = 0; i < s.length; i += chunkSize) enqueue delta s.slice(i, i + chunkSize)
RECURSIVE ChunkDeltas(_, _, _)
ChunkDeltas(type, id, s) ==
    IF s = <<>> THEN <<>>
    ELSE <<Ev(type, id, "", SubSeq(s, 1, Min(chunkSize, Len(s))), "")>>
         \o ChunkDeltas(type, id, SubSeq(s, Min(chunkSize, Len(s)) + 1, Len(s)))

\* Tool calls of a response as LanguageModelV2ToolCall values; p is
\* [calls, gen].  keepIds is FALSE where the code always calls generateId().
RECURSIVE ResponseToolCalls(_, _, _)
ResponseToolCalls(p, tcs, keepIds) ==
    IF tcs = <<>> THEN p
    ELSE LET tc == Head(tcs)
             given == IF keepIds THEN tc.id ELSE NoId
             id == IF given # NoId THEN given ELSE GenId(p.gen + 1)
             gen == IF given # NoId THEN p.gen ELSE p.gen + 1
         IN ResponseToolCalls(
                [calls |-> Append(p.calls, [id |-> id, toolName |-> tc.toolName,
                                            input |-> Stringify(tc.args)]),
                 gen |-> gen],
                Tail(tcs), keepIds)

RECURSIVE ConcatText(_, _)
ConcatText(parts, ptype) ==
    IF parts = <<>> THEN <<>>
    ELSE (IF Head(parts).ptype = ptype THEN Head(parts).text ELSE <<>>)
         \o ConcatText(Tail(parts), ptype)

\* reasoningContent = part.thinking: the last non-empty THINKING part wins.
RECURSIVE LastThinking(_)
LastThinking(parts) ==
    IF parts = <<>> THEN <<>>
    ELSE LET p == Last(parts)
         IN IF p.ptype = "THINKING" /\ p.text # <<>> THEN p.text
            ELSE LastThinking(SubSeq(parts, 1, Len(parts) - 1))

SelectParts(parts, types) == SelectSeq(parts, LAMBDA p : p.ptype \in types)

Newline == <<"\n">>

\* part_003:865-904
ParseCohereV2(r, reasoning, gen) ==
    LET parts == IF r.contentKind = "array" THEN r.parts ELSE <<>>
        tc == ResponseToolCalls([calls |-> <<>>, gen |-> gen], r.toolCalls, TRUE)
        thinking == LastThinking(parts)
    IN [text |-> ConcatText(parts, "TEXT"),
        reasoning |-> IF r.toolPlan # <<>> /\ reasoning
                      THEN r.toolPlan \o (IF thinking # <<>>
                                          THEN Newline \o thinking ELSE <<>>)
                      ELSE thinking,
        calls |-> tc.calls,
        fr |-> IF Len(tc.calls) > 0 THEN "tool-calls"
               ELSE mapFinishReason(r.finishReason),
        gen |-> tc.gen]

\* part_003:905-930
ParseCohere(r, reasoning, gen) ==
    LET tc == ResponseToolCalls([calls |-> <<>>, gen |-> gen], r.toolCalls, FALSE)
    IN [text |-> r.text,
        reasoning |-> LastThinking(r.parts),
        calls |-> tc.calls,
        fr |-> IF Len(tc.calls) > 0 THEN "tool-calls"
               ELSE mapFinishReason(r.finishReason),
        gen |-> tc.gen]

\* part_003:931-989
ParseGeneric(r, reasoning, gen) ==
    LET isArray == r.contentKind = "array"
        nested == ResponseToolCalls([calls |-> <<>>, gen |-> gen],
                      IF isArray
                      THEN SelectParts(r.parts, {"TOOL_CALL", "FUNCTION_CALL"})
                      ELSE <<>>, TRUE)
        tc == ResponseToolCalls(nested, r.toolCalls, TRUE)
    IN [text |-> CASE isArray -> ConcatText(r.parts, "TEXT")
                  [] r.contentKind \in {"string", "text"} -> r.text
                  [] OTHER -> <<>>,
        reasoning |-> IF r.reasoningContent # <<>> /\ reasoning
                      THEN r.reasoningContent ELSE <<>>,
        calls |-> tc.calls,
        fr |-> mapFinishReason(r.finishReason),
        gen |-> tc.gen]

ParseResponse(family, r, reasoning, gen) ==
    CASE family = "cohere-v2" -> ParseCohereV2(r, reasoning, gen)
      [] family = "cohere" -> ParseCohere(r, reasoning, gen)
      [] OTHER -> ParseGeneric(r, reasoning, gen)

\* part_003:1019-1036
RECURSIVE SimulatedToolCalls(_)
SimulatedToolCalls(calls) ==
    IF calls = <<>> THEN <<>>
    ELSE LET c == Head(calls)
         IN << Ev("tool-input-start", c.id, c.toolName, <<>>, ""),
               Ev("tool-input-delta", c.id, "", c.input, ""),
               Ev("tool-input-end", c.id, "", <<>>, ""),
               Ev("tool-call", c.id, c.toolName, c.input, "") >>
            \o SimulatedToolCalls(Tail(calls))

\* part_003:991-1043
SimulatedStream(p) ==
    (IF p.reasoning # <<>>
     THEN <<EvId("reasoning-start", reasoningId)>>
          \o ChunkDeltas("reasoning-delta", reasoningId, p.reasoning)
          \o <<EvId("reasoning-end", reasoningId)>>
     ELSE <<>>)
    \o (IF p.text # <<>>
        THEN <<EvId("text-start", textId)>>
             \o ChunkDeltas("text-delta", textId, p.text)
             \o <<EvId("text-end", textId)>>
        ELSE <<>>)
    \o SimulatedToolCalls(p.calls)
    \o <<Ev("finish", NoId, "", <<>>, p.fr)>>

(***************************************************************************)
(* Inputs: the parsed SSE events and the complete responses the backend    *)
(* may deliver.                                                            *)
(***************************************************************************)
T1 == <<"call", 1>>

T2 == <<"call", 2>>

Txt == <<"a">>

Args == <<"{", "x", "}">>

\* Longer than one chunk of the simulated stream.
LongTxt ==
    [i \in 1..(chunkSize + 1) |->
        IF i = 1 THEN "a" ELSE IF i = chunkSize + 1 THEN "c" ELSE "b"]

Part(ptype, text, id) ==
    [ptype |-> ptype, text |-> text, id |-> id,
     toolName |-> IF ptype \in {"TEXT", "THINKING"} THEN "" ELSE "tool",
     args |-> <<>>]

Call(id, toolName, args) == [id |-> id, toolName |-> toolName, args |-> args]

\* An event with every field absent.
E0 == [content |-> <<>>, toolCalls |-> <<>>, finishReason |-> "", etype |-> "",
       dtext |-> <<>>, tcData |-> FALSE, tcId |-> NoId, tcName |-> "",
       resp |-> FALSE, respText |-> <<>>, respToolCalls |-> <<>>,
       respFinishReason |-> "",
       hasChoice |-> FALSE, chKind |-> "none", chParts |-> <<>>, chText |-> <<>>,
       chReasoning |-> <<>>, chToolCalls |-> <<>>, chFinishReason |-> ""]

Typed(etype) == [E0 EXCEPT !.etype = etype]

TypedDelta(etype) == [E0 EXCEPT !.etype = etype, !.dtext = Txt]

CohereEvents ==
    { [E0 EXCEPT !.content = c] :
        c \in { <<Part("TEXT", Txt, NoId)>>,
                <<Part("TEXT", Txt, NoId), Part("TEXT", Txt, NoId)>>,
                <<Part("TEXT", <<>>, NoId), Part("TOOL_CALL", <<>>, T1)>>,
                <<Part("TOOL_CALL", <<>>, NoId)>> } }
    \cup { [E0 EXCEPT !.toolCalls = <<Call(T1, "tool", Args), Call(T2, "tool", <<>>)>>],
           [E0 EXCEPT !.finishReason = "WEIRD"],
           [E0 EXCEPT !.content = <<Part("TEXT", Txt, NoId)>>,
                      !.etype = "content-end"],
           [E0 EXCEPT !.etype = "tool-call-start", !.tcData = TRUE, !.tcId = T1,
                      !.tcName = "tool"],
           [E0 EXCEPT !.etype = "message-end", !.finishReason = "MAX_TOKENS"],
           [E0 EXCEPT !.resp = TRUE, !.respText = Txt,
                      !.respToolCalls = <<Call(T2, "tool", Args)>>,
                      !.respFinishReason = "COMPLETE"] }
    \cup { Typed(t) : t \in {"message-start", "content-start", "content-end",
                             "thinking-start", "thinking-end", "tool-call-end"} }
    \cup { TypedDelta(t) : t \in {"content-delta", "thinking-delta",
                                  "tool-plan-delta", "tool-call-delta"} }

Choice == [E0 EXCEPT !.hasChoice = TRUE]

GenericEvents ==
    { [E0 EXCEPT !.content = c] :
        c \in { <<Part("TEXT", Txt, NoId)>>,
                <<Part("TEXT", Txt, NoId), Part("TEXT", Txt, NoId)>>,
                <<Part("TEXT", <<>>, NoId), Part("FUNCTION_CALL", <<>>, T1)>> } }
    \cup { [E0 EXCEPT !.toolCalls = <<Call(T1, "tool", Args), Call(NoId, "tool", <<>>)>>],
           [E0 EXCEPT !.finishReason = "WEIRD"],
           [Choice EXCEPT !.chKind = "string", !.chText = Txt],
           [Choice EXCEPT !.chKind = "string", !.chText = Txt,
                          !.content = <<Part("TEXT", Txt, NoId)>>],
           [Choice EXCEPT !.chKind = "array",
                          !.chParts = <<Part("TEXT", Txt, NoId),
                                        Part("TEXT", Txt, NoId)>>],
           [Choice EXCEPT !.chReasoning = Txt],
           [Choice EXCEPT !.chToolCalls = <<Call(T1, "tool", <<>>)>>],
           [Choice EXCEPT !.chToolCalls = <<Call(T1, "", Args)>>],
           [Choice EXCEPT !.chToolCalls = <<Call(T2, "tool", Args)>>,
                          !.chFinishReason = "tool_calls"],
           [Choice EXCEPT !.chFinishReason = "length"] }

SSEEvents(family) == IF family = "generic" THEN GenericEvents ELSE CohereEvents

\* The finish codes of the backend, an unknown code, and an absent code.
FinishCodes ==
    {"MAX_TOKENS", "length", "COMPLETE", "stop", "STOP", "TOOL_CALL",
     "tool_calls", "TOOL_USE", "CONTENT_FILTER", "content_filter",
     "ERROR_TOXIC", "ERROR", "ERROR_LIMIT", "USER_CANCEL", "WEIRD", ""}

\* A chat response with every field absent.
R0 == [contentKind |-> "none", parts |-> <<>>,
       text |-> <<>>, toolCalls |-> <<>>, toolPlan |-> <<>>,
       reasoningContent |-> <<>>, finishReason |-> ""]

ResponseContents ==
    { [R0 EXCEPT !.contentKind = "array", !.parts = ps] :
        ps \in { <<Part("TEXT", Txt, NoId)>>,
                 <<Part("TEXT", LongTxt, NoId)>>,
                 <<Part("TEXT", <<>>, NoId), Part("TOOL_CALL", <<>>, T1)>>,
                 <<Part("THINKING", Txt, NoId), Part("TEXT", Txt, NoId)>>,
                 <<Part("THINKING", LongTxt, NoId), Part("TEXT", LongTxt, NoId)>>,
                 <<Part("TEXT", Txt, NoId), Part("THINKING", Txt, NoId)>> } }
    \cup { R0,
           [R0 EXCEPT !.contentKind = "string", !.text = Txt],
           [R0 EXCEPT !.contentKind = "string"],
           [R0 EXCEPT !.contentKind = "text", !.text = Txt] }

ResponseToolCallLists ==
    { <<>>, <<Call(T1, "tool", Args)>>,
      <<Call(NoId, "tool", <<>>), Call(T2, "tool", Args)>> }

Responses ==
    { [c EXCEPT !.toolCalls = tcs, !.toolPlan = rs[1],
                !.reasoningContent = rs[2], !.finishReason = fr] :
        c \in ResponseContents, tcs \in ResponseToolCallLists,
        rs \in { <<<<>>, <<>>>>, <<Txt, <<>>>>, <<<<>>, LongTxt>> },
        fr \in FinishCodes }

(***************************************************************************)
(* doStream: the stream's start() callback.                                *)
(***************************************************************************)
ErrorEvent == EvT("error")

\* FlushToolCalls with each summary enqueued before its tool-input-end.
RECURSIVE FlushToolCallsSummaryFirst(_, _)
FlushToolCallsSummaryFirst(tcs, started) ==
    IF tcs = <<>> THEN <<>>
    ELSE LET c == Head(tcs)
         IN (IF c.id \notin started
             THEN <<Ev("tool-input-start", c.id, c.toolName, <<>>, "")>>
             ELSE <<>>)
            \o << Ev("tool-call", c.id, c.toolName, c.input, ""),
                  Ev("tool-input-end", c.id, "", <<>>, "") >>
            \o FlushToolCallsSummaryFirst(Tail(tcs), started)

\* part_003:416-428: the tool calls enqueued at the end of the SSE stream.
RECURSIVE FlushToolCalls(_, _)
FlushToolCalls(tcs, started) ==
    IF tcs = <<>> THEN <<>>
    ELSE LET c == Head(tcs)
         IN (IF c.id \notin started
             THEN <<Ev("tool-input-start", c.id, c.toolName, <<>>, "")>>
             ELSE <<>>)
            \o << Ev("tool-input-end", c.id, "", <<>>, ""),
                  Ev("tool-call", c.id, c.toolName, c.input, "") >>
            \o FlushToolCalls(Tail(tcs), started)

FinalFinishReason(tcs, fr) == IF Len(tcs) > 0 THEN "tool-calls" ELSE fr

\* FlushEvents that leaves an open reasoning span open.
FlushEventsNoReasoningEnd(ts, rs, tcs, started, fr) ==
    (IF ts THEN <<EvId("text-end", textId)>> ELSE <<>>)
    \o FlushToolCalls(tcs, started)
    \o <<Ev("finish", NoId, "", <<>>, FinalFinishReason(tcs, fr))>>

\* part_003:408-440: the end of the SSE stream.
FlushEvents(ts, rs, tcs, started, fr) ==
    (IF ts THEN <<EvId("text-end", textId)>> ELSE <<>>)
    \o (IF rs THEN <<EvId("reasoning-end", reasoningId)>> ELSE <<>>)
    \o FlushToolCalls(tcs, started)
    \o <<Ev("finish", NoId, "", <<>>, FinalFinishReason(tcs, fr))>>

\* The state handleSSEStream starts in, nothing enqueued by it yet.
Acc0 == [out |-> <<>>, ts |-> FALSE, rs |-> FALSE, fr |-> "stop", tcs |-> <<>>,
         started |-> {}, gen |-> 2]

StreamInit ==
    /\ pc = "calling"
    /\ modelFamily \in Families
    /\ supportsReasoning \in BOOLEAN
    /\ events = <<EvT("stream-start")>>
    /\ textStarted = FALSE
    /\ reasoningStarted = FALSE
    /\ finishReason = "stop"
    /\ toolCalls = <<>>
    /\ toolCallsStarted = {}
    /\ genCount = 2
    /\ nRead = 0
    /\ flushAt = 0
    /\ buffer = ""
    /\ reference = [Acc0 EXCEPT !.out = <<EvT("stream-start")>>]
    /\ malformedAt = 0
    /\ response = R0
    /\ genResult = [content |-> <<>>, finishReason |-> ""]
    /\ schemaIn = <<>>
    /\ schemaOut = <<>>
    /\ modelId = ""
    /\ options = <<>>
    /\ request = <<>>

others == <<modelFamily, supportsReasoning, response, genResult, schemaIn,
            schemaOut, modelId, options, request>>

\* client.chat rejects: the catch of start().
ChatRejects ==
    /\ pc = "calling"
    /\ events' = Append(events, ErrorEvent)
    /\ pc' = "failed"
    /\ UNCHANGED <<textStarted, reasoningStarted, finishReason, toolCalls,
                   toolCallsStarted, genCount, nRead, flushAt, buffer,
                   reference, malformedAt>>
    /\ UNCHANGED others

\* client.chat resolves with neither a stream nor a chatResult.
ChatUnexpected ==
    /\ pc = "calling"
    /\ events' = Append(events, ErrorEvent)
    /\ pc' = "failed"
    /\ UNCHANGED <<textStarted, reasoningStarted, finishReason, toolCalls,
                   toolCallsStarted, genCount, nRead, flushAt, buffer,
                   reference, malformedAt>>
    /\ UNCHANGED others

\* client.chat resolves with a ReadableStream.
ChatStreams ==
    /\ pc = "calling"
    /\ pc' = "sse"
    /\ UNCHANGED streamVars
    /\ UNCHANGED others

\* client.chat resolves with a complete response:
\* handleNonStreamingResponse replays it.
ChatResponds ==
    /\ pc = "calling"
    /\ \E r \in Responses :
          LET p == ParseResponse(modelFamily, r, supportsReasoning, genCount)
          IN /\ events' = events \o SimulatedStream(p)
             /\ genCount' = p.gen
             /\ response' = r
    /\ pc' = "closed"
    /\ UNCHANGED <<textStarted, reasoningStarted, finishReason, toolCalls,
                   toolCallsStarted, nRead, flushAt, buffer, reference,
                   malformedAt>>
    /\ UNCHANGED <<modelFamily, supportsReasoning, genResult, schemaIn, schemaOut,
                   modelId, options, request>>

\* A complete response whose normalization throws (a null entry in a
\* tool-call array): nothing was enqueued yet, the catch of start() runs.
ChatRespondsMalformed ==
    /\ pc = "calling"
    /\ events' = Append(events, ErrorEvent)
    /\ pc' = "failed"
    /\ UNCHANGED <<textStarted, reasoningStarted, finishReason, toolCalls,
                   toolCallsStarted, genCount, nRead, flushAt, buffer,
                   reference, malformedAt>>
    /\ UNCHANGED others

\* The accumulator a handler call works on: the state of handleSSEStream.
Acc == [out |-> <<>>, ts |-> textStarted, rs |-> reasoningStarted,
        fr |-> finishReason, tcs |-> toolCalls, started |-> toolCallsStarted,
        gen |-> genCount]

\* The handler call made for one parsed event; the handler is handed the
\* values textStarted and reasoningStarted have as it is called.
HandleEvent(family, reasoning, acc, e) ==
    IF family = "generic"
    THEN handleGenericSSEEvent(acc, e, acc.ts, acc.rs, reasoning)
    ELSE handleCohereSSEEvent(acc, e, acc.ts, acc.rs)

\* catch (parseError): JSON.parse threw, nothing is enqueued and no state
\* is touched (a debug log at most).
ParseFailureEmitsError(acc) == Enq(acc, ErrorEvent)

ParseFailure(acc) == acc

\* What buffer holds between two reads, after `buffer = lines.pop() || ''`:
\* nothing, the beginning of a line, or a whole data line with a JSON
\* payload whose newline has not arrived.
Buffers == {"", "partial", "line"}

\* A complete line: a data line holding the JSON event e ("data"), a data
\* line whose payload JSON.parse rejects ("malformed"), or a line that is
\* no data line, or has an empty or [DONE] payload ("skipped").
Line(kind, e) == [kind |-> kind, e |-> e]

\* One pass of `for (const line of lines)` over the line l.
ProcessLine(family, reasoning, acc, l) ==
    CASE l.kind = "data" -> HandleEvent(family, reasoning, acc, l.e)
      [] l.kind = "malformed" -> ParseFailure(acc)
      [] OTHER -> acc

\* The read that brings the newline of the line l: the line (with what
\* buffer held of it) is split off and processed.
ReadLine(l) ==
    /\ pc = "sse"
    /\ nRead < MaxSSEEvents
    /\ LET r == ProcessLine(modelFamily, supportsReasoning, Acc, l)
       IN /\ events' = events \o r.out
          /\ textStarted' = r.ts
          /\ reasoningStarted' = r.rs
          /\ finishReason' = r.fr
          /\ toolCalls' = r.tcs
          /\ toolCallsStarted' = r.started
          /\ genCount' = r.gen
    /\ nRead' = nRead + 1
    /\ reference' = IF l.kind = "malformed" THEN reference
                    ELSE ProcessLine(modelFamily, supportsReasoning, reference, l)
    /\ malformedAt' = IF l.kind = "malformed" /\ malformedAt = 0
                      THEN nRead + 1 ELSE malformedAt
    /\ buffer' = ""
    /\ UNCHANGED <<pc, flushAt>>
    /\ UNCHANGED others

\* handleSSEStream: one data line holding the JSON event e.
SSEData == \E e \in SSEEvents(modelFamily) : ReadLine(Line("data", e))

\* A data line whose payload JSON.parse rejects.
SSEMalformed == ReadLine(Line("malformed", E0))

\* A line that is no data line, or an empty or [DONE] payload: skipped.
SSESkip == ReadLine(Line("skipped", E0))

\* A read whose bytes end without a newline: what follows the last newline
\* stays in buffer.
SSEPartial ==
    /\ pc = "sse"
    /\ nRead < MaxSSEEvents
    /\ buffer # "line"
    /\ buffer' \in Buffers \ {"", buffer}
    /\ UNCHANGED <<pc, events, textStarted, reasoningStarted, finishReason,
                   toolCalls, toolCallsStarted, genCount, nRead, flushAt,
                   reference, malformedAt>>
    /\ UNCHANGED others

\* reader.read() reports done: the loop is left, buffer is not looked at.
SSEDone ==
    /\ pc = "sse"
    /\ flushAt' = Len(events)
    /\ events' = events \o FlushEvents(textStarted, reasoningStarted, toolCalls,
                                       toolCallsStarted, finishReason)
    /\ finishReason' = FinalFinishReason(toolCalls, finishReason)
    /\ reference' = [reference EXCEPT
                        !.out = @ \o FlushEvents(reference.ts, reference.rs,
                                                 reference.tcs, reference.started,
                                                 reference.fr),
                        !.fr = FinalFinishReason(reference.tcs, @)]
    /\ pc' = "closed"
    /\ UNCHANGED <<textStarted, reasoningStarted, toolCalls, toolCallsStarted,
                   genCount, nRead, buffer, malformedAt>>
    /\ UNCHANGED others

\* reader.read() rejects: handleSSEStream throws into the catch of start().
SSEFails ==
    /\ pc = "sse"
    /\ events' = Append(events, ErrorEvent)
    /\ pc' = "failed"
    /\ UNCHANGED <<textStarted, reasoningStarted, finishReason, toolCalls,
                   toolCallsStarted, genCount, nRead, flushAt, buffer,
                   reference, malformedAt>>
    /\ UNCHANGED others

StreamNext ==
    \/ ChatRejects
    \/ ChatUnexpected
    \/ ChatStreams
    \/ ChatResponds
    \/ ChatRespondsMalformed
    \/ SSEData
    \/ SSEMalformed
    \/ SSESkip
    \/ SSEPartial
    \/ SSEDone
    \/ SSEFails

SpecStream == StreamInit /\ [][StreamNext]_vars

(***************************************************************************)
(* Properties of the emitted stream.                                       *)
(***************************************************************************)
Positions(log, type, id) ==
    {i \in 1..Len(log) : log[i].type = type /\ log[i].id = id}

Count(log, type, id) == Cardinality(Positions(log, type, id))

CountType(log, type) == Cardinality({i \in 1..Len(log) : log[i].type = type})

StartTypes == {"text-start", "reasoning-start", "tool-input-start"}

EndOf(type) ==
    CASE type = "text-start" -> "text-end"
      [] type = "reasoning-start" -> "reasoning-end"
      [] type = "tool-input-start" -> "tool-input-end"

StreamOver == pc \in {"closed", "failed"}

\* C1: in a stream that closed without an error event, every span id that
\* a -start event names is started once and ended exactly once, after its
\* start.
SpanMatching ==
    pc = "closed" =>
        \A i \in 1..Len(events) :
            events[i].type \in StartTypes =>
                /\ Count(events, events[i].type, events[i].id) = 1
                /\ Count(events, EndOf(events[i].type), events[i].id) = 1
                /\ \E j \in (i + 1)..Len(events) :
                      /\ events[j].type = EndOf(events[i].type)
                      /\ events[j].id = events[i].id

\* C2: every tool-call summary for an id comes after a tool-input-end of
\* its own for that id: up to any tool-call, the tool-input-end events of
\* its id are at least as many as its tool-call events.
ToolCallAfterInputEnd ==
    \A i \in 1..Len(events) :
        events[i].type = "tool-call" =>
            /\ i > 1
            /\ events[i - 1].type = "tool-input-end"
            /\ events[i - 1].id = events[i].id
            /\ Count(SubSeq(events, 1, i - 1), "tool-input-end", events[i].id)
                 >= Count(SubSeq(events, 1, i), "tool-call", events[i].id)

ToolCallAfterInputEndWitness ==
    /\ pc = "closed"
    /\ flushAt > 0
    /\ CountType(events, "tool-call") >= 2
    /\ CountType(events, "tool-input-delta") >= 1

\* C3: a stream begins with its only stream-start; while open it holds no
\* terminal event; closed normally it ends with its only finish and holds
\* no error; after a rejected call or a failed read it ends with its only
\* error and holds no finish, so nothing follows the error.
OneTerminalEvent ==
    /\ Len(events) >= 1
    /\ events[1].type = "stream-start"
    /\ CountType(events, "stream-start") = 1
    /\ ~StreamOver =>
          CountType(events, "finish") + CountType(events, "error") = 0
    /\ pc = "closed" =>
          /\ Last(events).type = "finish"
          /\ CountType(events, "finish") = 1
          /\ CountType(events, "error") = 0
    /\ pc = "failed" =>
          /\ Last(events).type = "error"
          /\ CountType(events, "error") = 1
          /\ CountType(events, "finish") = 0

\* A read failed while a text span and a tool call were open.
OneTerminalEventWitness ==
    /\ pc = "failed"
    /\ textStarted
    /\ toolCalls # <<>>
    /\ CountType(events, "text-end") = 0
    /\ CountType(events, "tool-input-end") = 0

\* The last of the kind's start and end events in the log is a start.
OpenIn(log, kind, id) ==
    LET ps == Positions(log, kind \o "-start", id)
        pe == Positions(log, kind \o "-end", id)
    IN /\ ps # {}
       /\ \A e \in pe : \E b \in ps : b > e

FlushRank(e) ==
    CASE e.type \in {"text-end", "reasoning-end"} -> 1
      [] e.type \in {"tool-input-start", "tool-input-end", "tool-call"} -> 2
      [] e.type = "finish" -> 3
      [] OTHER -> 0

\* C4: the parts enqueued at the natural end of the SSE stream are, in this
\* order: one -end for each text/reasoning span still open (none for a
\* span that is not), then for every recorded tool call its tool-input-end
\* immediately followed by its tool-call, then one finish, the last part.
NaturalEndFlush ==
    flushAt > 0 =>
        LET before == SubSeq(events, 1, flushAt)
            tail == SubSeq(events, flushAt + 1, Len(events))
        IN /\ pc = "closed"
           /\ Count(tail, "text-end", textId)
                = IF OpenIn(before, "text", textId) THEN 1 ELSE 0
           /\ Count(tail, "reasoning-end", reasoningId)
                = IF OpenIn(before, "reasoning", reasoningId) THEN 1 ELSE 0
           /\ \A c \in Range(toolCalls) :
                 /\ Count(tail, "tool-input-end", c.id) = 1
                 /\ Count(tail, "tool-call", c.id) = 1
                 /\ \A i \in Positions(tail, "tool-input-end", c.id) :
                       /\ tail[i + 1].type = "tool-call"
                       /\ tail[i + 1].id = c.id
           /\ \A i \in 1..Len(before) :
                 before[i].type = "tool-input-start" =>
                     Count(tail, "tool-call", before[i].id) = 1
           /\ \A i \in 1..Len(tail) :
                 /\ FlushRank(tail[i]) > 0
                 /\ \A j \in (i + 1)..Len(tail) :
                       FlushRank(tail[i]) <= FlushRank(tail[j])
           /\ Last(tail).type = "finish"
           /\ CountType(tail, "finish") = 1

\* The stream ended with a text span, a reasoning span and two tool calls open.
NaturalEndFlushWitness ==
    /\ flushAt > 0
    /\ OpenIn(SubSeq(events, 1, flushAt), "text", textId)
    /\ OpenIn(SubSeq(events, 1, flushAt), "reasoning", reasoningId)
    /\ Len(toolCalls) >= 2

ToolCallObserved ==
    \E i \in 1..Len(events) : events[i].type \in {"tool-input-start", "tool-call"}

\* C5: a stream that closed with a finish event and carried a tool call
\* has finishReason "tool-calls" in that finish event.
StreamFinishForcedToToolCalls ==
    (pc = "closed" /\ ToolCallObserved) =>
        Last(events).finishReason = "tool-calls"

(***************************************************************************)
(* doGenerate: the non-streaming response normalizer.                      *)
(***************************************************************************)
\* One LanguageModelV2Content block, all fields present.
Block(type, text, id, toolName, input) ==
    [type |-> type, text |-> text, id |-> id, toolName |-> toolName,
     input |-> input]

TextBlock(text) == Block("text", text, NoId, "", <<>>)

ReasoningBlock(text) == Block("reasoning", text, NoId, "", <<>>)

RECURSIVE ToolCallBlocks(_)
ToolCallBlocks(calls) ==
    IF calls = <<>> THEN <<>>
    ELSE <<Block("tool-call", <<>>, Head(calls).id, Head(calls).toolName,
                 Head(calls).input)>>
         \o ToolCallBlocks(Tail(calls))

\* part_003:1130-1139: TEXT and THINKING parts, in the order received.
RECURSIVE CohereV2ContentBlocks(_)
CohereV2ContentBlocks(parts) ==
    IF parts = <<>> THEN <<>>
    ELSE LET p == Head(parts)
         IN (CASE p.ptype = "TEXT" /\ p.text # <<>> -> <<TextBlock(p.text)>>
               [] p.ptype = "THINKING" /\ p.text # <<>> -> <<ReasoningBlock(p.text)>>
               [] OTHER -> <<>>)
            \o CohereV2ContentBlocks(Tail(parts))

\* part_003:1118-1171
GenerateCohereV2(r, reasoning, gen) ==
    LET parts == IF r.contentKind = "array" THEN r.parts ELSE <<>>
        tc == ResponseToolCalls([calls |-> <<>>, gen |-> gen], r.toolCalls, TRUE)
        body == CohereV2ContentBlocks(parts) \o ToolCallBlocks(tc.calls)
    IN [content |-> IF r.toolPlan # <<>> /\ reasoning
                    THEN <<ReasoningBlock(r.toolPlan)>> \o body
                    ELSE body,
        finishReason |-> IF Len(r.toolCalls) > 0 THEN "tool-calls"
                         ELSE mapFinishReason(r.finishReason)]

RECURSIVE ThinkingBlocks(_)
ThinkingBlocks(parts) ==
    IF parts = <<>> THEN <<>>
    ELSE (IF Head(parts).ptype = "THINKING" /\ Head(parts).text # <<>>
          THEN <<ReasoningBlock(Head(parts).text)>> ELSE <<>>)
         \o ThinkingBlocks(Tail(parts))

\* part_003:1172-1203
GenerateCohere(r, reasoning, gen) ==
    LET tc == ResponseToolCalls([calls |-> <<>>, gen |-> gen], r.toolCalls, FALSE)
    IN [content |-> ThinkingBlocks(r.parts)
                    \o (IF r.text # <<>> THEN <<TextBlock(r.text)>> ELSE <<>>)
                    \o ToolCallBlocks(tc.calls),
        finishReason |-> IF Len(r.toolCalls) > 0 THEN "tool-calls"
                         ELSE mapFinishReason(r.finishReason)]

\* part_003:1209-1234: the entries of message.content; p is [blocks, gen].
RECURSIVE GenericContentBlocks(_, _)
GenericContentBlocks(p, parts) ==
    IF parts = <<>> THEN p
    ELSE LET part == Head(parts)
             tc == ResponseToolCalls([calls |-> <<>>, gen |-> p.gen],
                                     <<part>>, TRUE)
         IN GenericContentBlocks(
                CASE part.ptype = "TEXT" ->
                        [p EXCEPT !.blocks = @ \o (IF part.text # <<>>
                                                   THEN <<TextBlock(part.text)>>
                                                   ELSE <<>>)]
                  [] part.ptype \in {"TOOL_CALL", "FUNCTION_CALL"} ->
                        [blocks |-> p.blocks \o ToolCallBlocks(tc.calls),
                         gen |-> tc.gen]
                  [] OTHER -> p,
                Tail(parts))

HasToolCallBlock(content) ==
    \E i \in 1..Len(content) : content[i].type = "tool-call"

\* The finish reason doGenerate returns for the generic family.
GenericFinishReasonAsReported(content, raw) == mapFinishReason(raw)

GenericFinishReason(content, raw) ==
    IF HasToolCallBlock(content) THEN "tool-calls" ELSE mapFinishReason(raw)

\* part_003:1204-1273
GenerateGeneric(r, reasoning, gen) ==
    LET p0 == [blocks |-> <<>>, gen |-> gen]
        p1 == CASE r.contentKind = "array" -> GenericContentBlocks(p0, r.parts)
                [] r.contentKind = "string" ->
                       [p0 EXCEPT !.blocks = <<TextBlock(r.text)>>]
                [] r.contentKind = "text" /\ r.text # <<>> ->
                       [p0 EXCEPT !.blocks = <<TextBlock(r.text)>>]
                [] OTHER -> p0
        tc == ResponseToolCalls([calls |-> <<>>, gen |-> p1.gen], r.toolCalls, TRUE)
        body == p1.blocks \o ToolCallBlocks(tc.calls)
        content == IF r.reasoningContent # <<>> /\ reasoning
                   THEN <<ReasoningBlock(r.reasoningContent)>> \o body
                   ELSE body
    IN [content |-> content,
        finishReason |-> GenericFinishReason(content, r.finishReason)]

doGenerate(family, r, reasoning, gen) ==
    CASE family = "cohere-v2" -> GenerateCohereV2(r, reasoning, gen)
      [] family = "cohere" -> GenerateCohere(r, reasoning, gen)
      [] OTHER -> GenerateGeneric(r, reasoning, gen)

NoResult == [content |-> <<>>, finishReason |-> ""]

\* options.abortSignal as doGenerate is called: not given, given and not
\* aborted, or given and already aborted.
AbortSignals == {"none", "idle", "aborted"}

GenInit ==
    /\ pc = "calling"
    /\ modelFamily \in Families
    /\ supportsReasoning \in BOOLEAN
    /\ events = <<>>
    /\ textStarted = FALSE
    /\ reasoningStarted = FALSE
    /\ finishReason = "stop"
    /\ toolCalls = <<>>
    /\ toolCallsStarted = {}
    /\ genCount = 0
    /\ nRead = 0
    /\ flushAt = 0
    /\ buffer = ""
    /\ reference = <<>>
    /\ malformedAt = 0
    /\ response = R0
    /\ genResult = NoResult
    /\ schemaIn = <<>>
    /\ schemaOut = <<>>
    /\ modelId = ""
    /\ options \in {[abortSignal |-> a] : a \in AbortSignals}
    /\ request = <<>>

genFrame == <<modelFamily, supportsReasoning, events, textStarted,
              reasoningStarted, finishReason, toolCalls, toolCallsStarted,
              genCount, nRead, flushAt, buffer, reference, malformedAt,
              schemaIn, schemaOut, modelId, options, request>>

\* client.chat rejects: doGenerate throws parseOCIError(error).
GenChatRejects ==
    /\ pc = "calling"
    /\ pc' = "rejected"
    /\ UNCHANGED <<response, genResult>>
    /\ UNCHANGED genFrame

\* client.chat resolves without a chatResult: doGenerate throws.
GenChatUnexpected ==
    /\ pc = "calling"
    /\ pc' = "rejected"
    /\ UNCHANGED <<response, genResult>>
    /\ UNCHANGED genFrame

\* client.chat resolves with the response r: doGenerate returns.
GenChatResponds ==
    /\ pc = "calling"
    /\ \E r \in Responses :
          /\ response' = r
          /\ genResult' = doGenerate(modelFamily, r, supportsReasoning, genCount)
    /\ pc' = "returned"
    /\ UNCHANGED genFrame

\* The caller aborts options.abortSignal while client.chat is pending.
\* doGenerate never reads the signal and hands it to no one: the pending
\* call goes on.
GenAbortFires ==
    /\ pc = "calling"
    /\ options.abortSignal = "idle"
    /\ options' = [options EXCEPT !.abortSignal = "aborted"]
    /\ UNCHANGED <<pc, response, genResult>>
    /\ UNCHANGED <<modelFamily, supportsReasoning, events, textStarted,
                   reasoningStarted, finishReason, toolCalls,
                   toolCallsStarted, genCount, nRead, flushAt, buffer,
                   reference, malformedAt, schemaIn, schemaOut, modelId,
                   request>>

GenNext ==
    \/ GenChatRejects
    \/ GenChatUnexpected
    \/ GenChatResponds
    \/ GenAbortFires

SpecGen == GenInit /\ [][GenNext]_vars

\* C6: a doGenerate result whose content holds a tool-call block has
\* finishReason "tool-calls", whatever the raw finish code was.
ToolCallsForceFinishReason ==
    (pc = "returned" /\ HasToolCallBlock(genResult.content)) =>
        genResult.finishReason = "tool-calls"

\* A generic response reporting MAX_TOKENS whose only tool call is nested
\* in the content array.
ToolCallsForceFinishReasonWitness ==
    /\ pc = "returned"
    /\ modelFamily = "generic"
    /\ response.finishReason = "MAX_TOKENS"
    /\ response.toolCalls = <<>>
    /\ HasToolCallBlock(genResult.content)

\* The vendor-code table of the interface specification.
TableCodes ==
    {"MAX_TOKENS", "length", "COMPLETE", "stop", "STOP", "TOOL_CALL",
     "tool_calls", "TOOL_USE", "CONTENT_FILTER", "content_filter",
     "ERROR_TOXIC", "ERROR", "ERROR_LIMIT", "USER_CANCEL"}

TableReason(raw) ==
    CASE raw \in {"MAX_TOKENS", "length"} -> "length"
      [] raw \in {"COMPLETE", "stop", "STOP"} -> "stop"
      [] raw \in {"TOOL_CALL", "tool_calls", "TOOL_USE"} -> "tool-calls"
      [] raw \in {"CONTENT_FILTER", "content_filter", "ERROR_TOXIC"} -> "content-filter"
      [] raw \in {"ERROR", "ERROR_LIMIT"} -> "error"
      [] raw = "USER_CANCEL" -> "other"

\* C7: a response without tool calls that reports a code of the table is
\* returned with the canonical reason the table gives for that code.
FinishReasonTable ==
    (pc = "returned" /\ ~HasToolCallBlock(genResult.content)
       /\ response.finishReason \in TableCodes) =>
        genResult.finishReason = TableReason(response.finishReason)

\* C8: a response without tool calls whose finish code is absent or not in
\* the table is returned (nothing is thrown) with finishReason "stop".
UnknownFinishCodeIsStop ==
    (pc = "returned" /\ ~HasToolCallBlock(genResult.content)
       /\ response.finishReason \notin TableCodes) =>
        genResult.finishReason = "stop"

UnknownFinishCodeIsStopWitness ==
    /\ pc = "returned"
    /\ response.finishReason = "WEIRD"
    /\ ~HasToolCallBlock(genResult.content)
    /\ genResult.content # <<>>

(***************************************************************************)
(* cleanJsonSchema: the tool-schema sanitizer.                             *)
(*                                                                         *)
(* A JSON value is a record [t, s, kids]: t = "str" with the string s (or  *)
(* "bool", "num" with its text), t = "obj" with kids the entries           *)
(* [k, v] in insertion order, t = "arr" with kids the items (k = "").      *)
(* The trees are plain JSON Schema: ensureJsonSchema returns them as they  *)
(* are (they carry no Zod marker).                                         *)
(***************************************************************************)
Str(v) == [t |-> "str", s |-> v, kids |-> <<>>]

Bool(v) == [t |-> "bool", s |-> v, kids |-> <<>>]

KV(k, v) == [k |-> k, v |-> v]

Obj(entries) == [t |-> "obj", s |-> "", kids |-> entries]

Arr(items) ==
    [t |-> "arr", s |-> "", kids |-> [i \in 1..Len(items) |-> KV("", items[i])]]

Has(node, key) ==
    node.t = "obj" /\ \E i \in 1..Len(node.kids) : node.kids[i].k = key

Get(node, key) ==
    node.kids[CHOOSE i \in 1..Len(node.kids) : node.kids[i].k = key].v

UNSUPPORTED_KEYWORDS ==
    {"$schema", "$ref", "ref", "$defs", "definitions", "$id", "$comment",
     "additionalProperties", "propertyNames", "title", "examples", "default",
     "const", "minLength", "maxLength", "minItems", "maxItems",
     "exclusiveMinimum", "exclusiveMaximum"}

\* schema.type === 'string'
TypeIsString(node) == Has(node, "type") /\ Get(node, "type") = Str("string")

\* Object.entries of an array: its items under the keys "0", "1", ...
IndexKeys == <<"0", "1", "2", "3">>

Entries(node) ==
    IF node.t = "arr"
    THEN [i \in 1..Len(node.kids) |-> KV(IndexKeys[i], node.kids[i].v)]
    ELSE node.kids

\* key === 'pattern' && typeof value === 'string' && schema.type === 'string'
\* (and the same for 'format')
IsConstraintAnyType(key, value, typeIsString) ==
    key \in {"pattern", "format"} /\ value.t = "str"

IsConstraint(key, value, typeIsString) ==
    key \in {"pattern", "format"} /\ value.t = "str" /\ typeIsString

RECURSIVE cleanJsonSchema(_), CleanEntries(_, _), CleanItems(_)

\* CleanEntries with the entry after a dropped keyword copied unexamined.
RECURSIVE CleanEntriesSkipNext(_, _)
CleanEntriesSkipNext(entries, typeIsString) ==
    IF entries = <<>> THEN <<>>
    ELSE LET e == Head(entries)
             rest == CleanEntriesSkipNext(Tail(entries), typeIsString)
         IN CASE e.k \in UNSUPPORTED_KEYWORDS ->
                    IF Len(entries) >= 2
                    THEN <<entries[2]>>
                         \o CleanEntriesSkipNext(Tail(Tail(entries)), typeIsString)
                    ELSE <<>>
              [] IsConstraint(e.k, e.v, typeIsString) -> rest
              [] e.v.t = "obj" -> <<KV(e.k, cleanJsonSchema(e.v))>> \o rest
              [] e.v.t = "arr" ->
                    <<KV(e.k, [e.v EXCEPT !.kids = CleanItems(e.v.kids)])>> \o rest
              [] OTHER -> <<e>> \o rest

cleanJsonSchema(schema) ==
    IF schema.t \notin {"obj", "arr"} THEN schema
    ELSE Obj(CleanEntries(Entries(schema), TypeIsString(schema)))

CleanEntries(entries, typeIsString) ==
    IF entries = <<>> THEN <<>>
    ELSE LET e == Head(entries)
             rest == CleanEntries(Tail(entries), typeIsString)
         IN CASE e.k \in UNSUPPORTED_KEYWORDS -> rest
              [] IsConstraint(e.k, e.v, typeIsString) -> rest
              [] e.v.t = "obj" -> <<KV(e.k, cleanJsonSchema(e.v))>> \o rest
              [] e.v.t = "arr" ->
                    <<KV(e.k, [e.v EXCEPT !.kids = CleanItems(e.v.kids)])>> \o rest
              [] OTHER -> <<e>> \o rest

CleanItems(items) ==
    IF items = <<>> THEN <<>>
    ELSE <<KV("", IF Head(items).v.t \in {"obj", "arr"}
                  THEN cleanJsonSchema(Head(items).v)
                  ELSE Head(items).v)>>
         \o CleanItems(Tail(items))

\* Schemas of single tool arguments.
Num(v) == [t |-> "num", s |-> v, kids |-> <<>>]

StringSchema == Obj(<<KV("type", Str("string"))>>)

ArgSchemas ==
    << StringSchema,
       Obj(<<KV("type", Str("string")), KV("pattern", Str("^[a-z]+$")),
             KV("description", Str("d"))>>),
       Obj(<<KV("type", Str("string")), KV("title", Str("T")),
             KV("default", Str("x")), KV("format", Str("uri"))>>),
       Obj(<<KV("type", Str("integer")), KV("format", Str("int64"))>>),
       Obj(<<KV("format", Str("date")), KV("type", Str("string"))>>),
       Obj(<<KV("type", Str("array")), KV("minItems", Num("1")),
             KV("items", Obj(<<KV("type", Str("string")),
                               KV("pattern", Str("p"))>>))>>),
       Obj(<<KV("type", Str("string")), KV("enum", Arr(<<Str("a"), Str("b")>>))>>),
       Obj(<<KV("anyOf", Arr(<<Obj(<<KV("type", Str("string")),
                                     KV("format", Str("email"))>>),
                               Obj(<<KV("type", Str("null"))>>)>>))>>),
       Obj(<<KV("type", Str("string")), KV("pattern", StringSchema)>>) >>

\* The properties maps: each argument name absent (0) or with one schema.
PropertyMaps ==
    { (IF p = 0 THEN <<>> ELSE <<KV("pattern", ArgSchemas[p])>>)
      \o (IF f = 0 THEN <<>> ELSE <<KV("format", ArgSchemas[f])>>)
      \o (IF x = 0 THEN <<>> ELSE <<KV("path", ArgSchemas[x])>>)
      \o (IF t = 0 THEN <<>> ELSE <<KV("title", ArgSchemas[t])>>) :
        p \in {0, 1, 2, 3}, f \in {0, 1, 4}, x \in {0, 5, 6}, t \in {0, 1} }

ToolSchemas ==
    { Obj(<<KV("type", Str("object")), KV("properties", Obj(m)),
            KV("required", Arr(<<Str("path")>>
                                   \o IF Has(Obj(m), "title")
                                      THEN <<Str("title")>> ELSE <<>>)),
            KV("additionalProperties", Bool("false"))>>) : m \in PropertyMaps }
    \cup { Obj(<<KV("$schema", Str("http://json-schema.org/draft-07/schema#")),
                 KV("title", Str("Args")),
                 KV("type", Str("object")), KV("properties", Obj(m))>>) :
             m \in PropertyMaps }

SchemaTrees ==
    ToolSchemas
    \cup Range(ArgSchemas)
    \cup { Str("string"),
           Arr(<<ArgSchemas[3], Arr(<<ArgSchemas[2], Str("a")>>)>>),
           Obj(<<KV("examples", Arr(<<Str("a")>>)),
                 KV("enum", Arr(<<Arr(<<ArgSchemas[3]>>)>>))>>) }

SchemaInit ==
    /\ pc = "schema"
    /\ schemaIn \in SchemaTrees
    /\ schemaOut = Str("")
    /\ modelFamily = "generic"
    /\ supportsReasoning = FALSE
    /\ events = <<>>
    /\ textStarted = FALSE
    /\ reasoningStarted = FALSE
    /\ finishReason = "stop"
    /\ toolCalls = <<>>
    /\ toolCallsStarted = {}
    /\ genCount = 0
    /\ nRead = 0
    /\ flushAt = 0
    /\ buffer = ""
    /\ reference = <<>>
    /\ malformedAt = 0
    /\ response = R0
    /\ genResult = NoResult
    /\ modelId = ""
    /\ options = <<>>
    /\ request = <<>>

schemaFrame == <<modelFamily, supportsReasoning, events, textStarted,
                 reasoningStarted, finishReason, toolCalls, toolCallsStarted,
                 genCount, nRead, flushAt, buffer, reference, malformedAt,
                 response, genResult, modelId, options, request>>

\* convertTools: cleanJsonSchema(tool.inputSchema)
Clean ==
    /\ pc = "schema"
    /\ schemaOut' = cleanJsonSchema(schemaIn)
    /\ pc' = "cleaned"
    /\ UNCHANGED schemaIn
    /\ UNCHANGED schemaFrame

\* cleanJsonSchema applied to its own result.
CleanAgain ==
    /\ pc = "cleaned"
    /\ schemaIn' = schemaOut
    /\ schemaOut' = cleanJsonSchema(schemaOut)
    /\ pc' = "recleaned"
    /\ UNCHANGED schemaFrame

SchemaNext ==
    \/ Clean
    \/ CleanAgain

SpecSchema == SchemaInit /\ [][SchemaNext]_vars

\* C9: cleaning a cleaned schema changes nothing.
CleanIsIdempotent == pc = "recleaned" => schemaOut = schemaIn

\* The second pass ran on a tree the first pass had changed at two levels.
CleanIsIdempotentWitness ==
    /\ pc = "recleaned"
    /\ Has(schemaOut, "properties")
    /\ Has(Get(schemaOut, "properties"), "pattern")
    /\ ~Has(schemaOut, "title")

\* At the node in and at every node below it that the cleaner keeps, out
\* has the key pattern (format) exactly when in has it and it is not a
\* string value beside type "string".
RECURSIVE PatternRule(_, _)
PatternRule(in, out) ==
    CASE in.t = "obj" ->
           /\ out.t = "obj"
           /\ \A key \in {"pattern", "format"} :
                 Has(out, key) <=>
                    /\ Has(in, key)
                    /\ ~(TypeIsString(in) /\ Get(in, key).t = "str")
           /\ \A i \in 1..Len(in.kids) :
                 LET e == in.kids[i]
                 IN (e.k \notin UNSUPPORTED_KEYWORDS /\ e.v.t \in {"obj", "arr"}) =>
                       /\ Has(out, e.k)
                       /\ PatternRule(e.v, Get(out, e.k))
      [] in.t = "arr" /\ out.t = "arr" ->
           /\ Len(out.kids) = Len(in.kids)
           /\ \A i \in 1..Len(in.kids) : PatternRule(in.kids[i].v, out.kids[i].v)
      [] in.t = "arr" /\ out.t = "obj" ->
           /\ Len(out.kids) = Len(in.kids)
           /\ \A i \in 1..Len(in.kids) : PatternRule(in.kids[i].v, out.kids[i].v)
      [] OTHER -> out = in

\* An argument named pattern or format keeps its schema: every entry of it
\* that is no unsupported keyword and no constraint of a string is still
\* there with its value.
ArgumentKept(in, out) ==
    \A name \in {"pattern", "format"} :
        (Has(in, name) /\ Get(in, name).t = "obj") =>
            /\ Has(out, name)
            /\ LET a == Get(in, name)
                   b == Get(out, name)
               IN /\ b.t = "obj"
                  /\ \A i \in 1..Len(a.kids) :
                        LET e == a.kids[i]
                        IN (e.k \notin UNSUPPORTED_KEYWORDS /\ e.v.t = "str"
                              /\ ~(e.k \in {"pattern", "format"} /\ TypeIsString(a)))
                           => (Has(b, e.k) /\ Get(b, e.k) = e.v)
                  /\ (\A i \in 1..Len(a.kids) :
                         /\ a.kids[i].k \notin UNSUPPORTED_KEYWORDS
                         /\ a.kids[i].k \notin {"pattern", "format"}
                         /\ a.kids[i].v.t = "str")
                     => b = a

\* C10: at every node the cleaner visits, the key pattern (format) is gone
\* from the result exactly when the node has type "string" and the key's
\* value is a string; an argument named pattern or format in a properties
\* map is still there with its schema.
PatternFormatDisambiguation ==
    pc = "cleaned" =>
        /\ PatternRule(schemaIn, schemaOut)
        /\ Has(schemaIn, "properties") =>
              /\ Has(schemaOut, "properties")
              /\ ArgumentKept(Get(schemaIn, "properties"),
                              Get(schemaOut, "properties"))

\* A tool schema with an argument named pattern that itself carries a
\* pattern constraint, and an argument named format of type integer.
PatternFormatDisambiguationWitness ==
    /\ pc = "cleaned"
    /\ Has(schemaIn, "properties")
    /\ Has(Get(schemaIn, "properties"), "pattern")
    /\ Has(Get(Get(schemaIn, "properties"), "pattern"), "pattern")
    /\ Has(Get(schemaIn, "properties"), "format")
    /\ Has(Get(Get(schemaOut, "properties"), "format"), "format")
    /\ ~Has(Get(Get(schemaOut, "properties"), "pattern"), "pattern")

(***************************************************************************)
(* The request builder.                                                    *)
(*                                                                         *)
(* Model ids, prompt text and the text the converters build are TLA+       *)
(* strings.  An optional value is <<>> when absent and <<v>> when given.   *)
(* temperature and topP are in hundredths.  The per-tool schema            *)
(* conversion is the subject of SpecSchema: here a converted tool is its   *)
(* name.                                                                   *)
(***************************************************************************)
StartsWith(s, p) == Len(s) >= Len(p) /\ SubSeq(s, 1, Len(p)) = p

EndsWith(s, p) ==
    Len(s) >= Len(p) /\ SubSeq(s, Len(s) - Len(p) + 1, Len(s)) = p

Includes(s, p) ==
    \E i \in 1..(Len(s) - Len(p) + 1) : SubSeq(s, i, i + Len(p) - 1) = p

\* The number of places where p occurs in s.
Occurrences(s, p) ==
    Cardinality({i \in 1..(Len(s) - Len(p) + 1) : SubSeq(s, i, i + Len(p) - 1) = p})

\* part_003:48-114, supportsStopSequences defaulting to true.
SWE_PRESETS ==
    [cohere |-> [temperature |-> 20, topP |-> 90, frequencyPenalty |-> 0,
                 presencePenalty |-> 0, supportsTools |-> TRUE,
                 supportsPenalties |-> TRUE, supportsStopSequences |-> TRUE,
                 supportsReasoning |-> FALSE],
     google |-> [temperature |-> 10, topP |-> 95, frequencyPenalty |-> 0,
                 presencePenalty |-> 0, supportsTools |-> TRUE,
                 supportsPenalties |-> FALSE, supportsStopSequences |-> TRUE,
                 supportsReasoning |-> FALSE],
     xai |-> [temperature |-> 10, topP |-> 90, frequencyPenalty |-> 0,
              presencePenalty |-> 0, supportsTools |-> TRUE,
              supportsPenalties |-> FALSE, supportsStopSequences |-> FALSE,
              supportsReasoning |-> FALSE],
     meta |-> [temperature |-> 20, topP |-> 90, frequencyPenalty |-> 0,
               presencePenalty |-> 0, supportsTools |-> TRUE,
               supportsPenalties |-> TRUE, supportsStopSequences |-> TRUE,
               supportsReasoning |-> FALSE],
     openai |-> [temperature |-> 10, topP |-> 90, frequencyPenalty |-> 0,
                 presencePenalty |-> 0, supportsTools |-> TRUE,
                 supportsPenalties |-> TRUE, supportsStopSequences |-> TRUE,
                 supportsReasoning |-> TRUE],
     default |-> [temperature |-> 20, topP |-> 90, frequencyPenalty |-> 0,
                  presencePenalty |-> 0, supportsTools |-> TRUE,
                  supportsPenalties |-> TRUE, supportsStopSequences |-> TRUE,
                  supportsReasoning |-> FALSE]]

\* modelId.split('.')[0]
SplitFirst(s) ==
    IF Includes(s, ".")
    THEN LET i == CHOOSE k \in 1..Len(s) :
                    /\ SubSeq(s, k, k) = "."
                    /\ \A j \in 1..(k - 1) : SubSeq(s, j, j) # "."
         IN SubSeq(s, 1, i - 1)
    ELSE s

getModelProvider(id) ==
    IF SplitFirst(id) # "" THEN SplitFirst(id) ELSE "default"

\* part_003:121-154
getSWEPreset(id) ==
    LET provider == getModelProvider(id)
        basePreset == IF provider \in DOMAIN SWE_PRESETS
                      THEN SWE_PRESETS[provider] ELSE SWE_PRESETS["default"]
    IN CASE Includes(id, "flash-lite") ->
                [basePreset EXCEPT !.supportsReasoning = FALSE]
         [] StartsWith(id, "xai.") ->
                [basePreset EXCEPT !.supportsReasoning =
                    (EndsWith(id, "-reasoning") \/ Includes(id, "grok-3-mini"))
                    /\ ~Includes(id, "-non-reasoning")]
         [] Includes(id, "reasoning") ->
                [basePreset EXCEPT !.supportsReasoning = TRUE]
         [] OTHER -> basePreset

\* part_003:164-173
getModelFamily(id) ==
    IF StartsWith(id, "cohere.")
    THEN (IF Includes(id, "command-a") THEN "cohere-v2" ELSE "cohere")
    ELSE "generic"

(***************************************************************************)
(* The canonical prompt (LanguageModelV2Prompt).  A message is             *)
(* [role, text, parts]: text is the content of a system message, parts     *)
(* the content of any other.  A part carries every field; input is the     *)
(* JSON text of the tool arguments (inputIsString when the caller gave a   *)
(* string rather than an object) and output is [type, value] with type     *)
(* "none" for an absent output.                                            *)
(***************************************************************************)
NoOutput == [type |-> "none", value |-> ""]

Msg(role, text, parts) == [role |-> role, text |-> text, parts |-> parts]

TextPart(text) ==
    [type |-> "text", text |-> text, toolCallId |-> "", toolName |-> "",
     input |-> "", inputIsString |-> FALSE, output |-> NoOutput]

FilePart(data) ==
    [type |-> "file", text |-> data, toolCallId |-> "", toolName |-> "",
     input |-> "", inputIsString |-> FALSE, output |-> NoOutput]

ToolCallPart(id, toolName, input, isString) ==
    [type |-> "tool-call", text |-> "", toolCallId |-> id,
     toolName |-> toolName, input |-> input, inputIsString |-> isString,
     output |-> NoOutput]

ToolResultPart(id, toolName, output) ==
    [type |-> "tool-result", text |-> "", toolCallId |-> id,
     toolName |-> toolName, input |-> "", inputIsString |-> FALSE,
     output |-> output]

PartsOfType(parts, type) == SelectSeq(parts, LAMBDA p : p.type = type)

\* .filter(part => part.type === 'text').map(part => part.text).join('\n')
RECURSIVE Join(_, _)
Join(texts, sep) ==
    CASE texts = <<>> -> ""
      [] Len(texts) = 1 -> texts[1]
      [] OTHER -> texts[1] \o sep \o Join(Tail(texts), sep)

JoinText(parts) ==
    LET ps == PartsOfType(parts, "text")
    IN Join([i \in 1..Len(ps) |-> ps[i].text], "\n")

\* JSON.parse of a tool-call input given as a string of valid JSON: the
\* value parsed, written in the compact form JSON.stringify gives it
\* (the inputs carry no blank inside a string literal).
RECURSIVE JSONParse(_)
JSONParse(s) ==
    IF s = "" THEN ""
    ELSE (IF SubSeq(s, 1, 1) = " " THEN "" ELSE SubSeq(s, 1, 1))
         \o JSONParse(SubSeq(s, 2, Len(s)))

\* JSON.parse throws a SyntaxError on s. The string inputs of the model are
\* the text of a JSON object or a truncation of one: the text is accepted
\* when, blanks apart, it runs from an opening to a closing brace.
JSONParseThrows(s) ==
    LET t == JSONParse(s)
    IN ~(Len(t) >= 2 /\ SubSeq(t, 1, 1) = "{" /\ SubSeq(t, Len(t), Len(t)) = "}")

\* typeof part.input === 'string' ? part.input : JSON.stringify(part.input)
InputArguments(part) == part.input

\* part_003:2130-2146: the text of a tool result.
ResultText(output) ==
    CASE output.type = "none" -> ""
      [] output.type \in {"string", "text", "error-text", "json"} -> output.value
      [] OTHER -> "{\"type\":\"" \o output.type \o "\",\"value\":"
                  \o output.value \o "}"

(***************************************************************************)
(* convertMessagesToCohereFormat (legacy Cohere protocol).                 *)
(***************************************************************************)
SomeLaterUser(prompt, i) ==
    \E j \in (i + 1)..Len(prompt) : prompt[j].role = "user"

\* toolCallParts.map(part => ({name, parameters}))
CohereToolCalls(parts) ==
    LET tcs == PartsOfType(parts, "tool-call")
    IN [i \in 1..Len(tcs) |->
          [name |-> tcs[i].toolName,
           parameters |-> IF tcs[i].inputIsString THEN JSONParse(tcs[i].input)
                          ELSE tcs[i].input]]

\* [...chatHistory].reverse().find(m => m.role === 'CHATBOT' && m.toolCalls):
\* the entries of chatHistory that qualify, the last one being the one found.
ChatbotsWithToolCalls(chatHistory) ==
    SelectSeq(chatHistory,
              LAMBDA m : m.role = "CHATBOT" /\ m.toolCalls # <<>>)

\* part_003:1830-1865: the toolResults entries of one tool message.
RECURSIVE CohereToolResults(_, _)
CohereToolResults(parts, chatHistory) ==
    IF parts = <<>> THEN <<>>
    ELSE LET part == Head(parts)
             prev == ChatbotsWithToolCalls(chatHistory)
         IN (IF part.type = "tool-result" /\ prev # <<>>
             THEN LET toolCall == Last(prev).toolCalls[1]
                  IN <<[name |-> toolCall.name,
                        parameters |-> toolCall.parameters,
                        wrapped |-> part.output.type # "json",
                        value |-> ResultText(part.output)]>>
             ELSE <<>>)
            \o CohereToolResults(Tail(parts), chatHistory)

ChatEntry(role, message, tcs) ==
    [role |-> role, message |-> message, toolCalls |-> tcs]

\* part_003:1780-1867: the loop from message i on; acc is
\* [chatHistory, toolResults, systemPreamble, lastUserMessage].
RECURSIVE CohereFormatFrom(_, _, _)
CohereFormatFrom(prompt, i, acc) ==
    IF i > Len(prompt) THEN acc
    ELSE LET msg == prompt[i]
             text == JoinText(msg.parts)
             tcs == CohereToolCalls(msg.parts)
         IN CohereFormatFrom(prompt, i + 1,
              CASE msg.role = "system" ->
                     [acc EXCEPT !.systemPreamble = msg.text]
                [] msg.role = "user" ->
                     IF ~SomeLaterUser(prompt, i)
                     THEN [acc EXCEPT !.lastUserMessage =
                              IF acc.systemPreamble # ""
                              THEN acc.systemPreamble \o "\n\n" \o text
                              ELSE text]
                     ELSE [acc EXCEPT !.chatHistory =
                              Append(@, ChatEntry("USER", text, <<>>))]
                [] msg.role = "assistant" ->
                     IF tcs # <<>>
                     THEN [acc EXCEPT !.chatHistory =
                              Append(@, ChatEntry("CHATBOT", text, tcs))]
                     ELSE IF text # ""
                     THEN [acc EXCEPT !.chatHistory =
                              Append(@, ChatEntry("CHATBOT", text, <<>>))]
                     ELSE acc
                [] msg.role = "tool" ->
                     [acc EXCEPT !.toolResults =
                         @ \o CohereToolResults(msg.parts, acc.chatHistory)]
                [] OTHER -> acc)

\* part_003:1766-1870
convertMessagesToCohereFormat(prompt) ==
    LET acc == CohereFormatFrom(prompt, 1,
                 [chatHistory |-> <<>>, toolResults |-> <<>>,
                  systemPreamble |-> "", lastUserMessage |-> ""])
    IN [message |-> acc.lastUserMessage, chatHistory |-> acc.chatHistory,
        toolResults |-> acc.toolResults]

(***************************************************************************)
(* convertMessagesToCohereV2Format and convertMessagesToGenericFormat.     *)
(* A built message is [role, content, contentIsNull, toolCalls,            *)
(* toolCallId]; toolCalls <<>> and toolCallId "" are absent fields.        *)
(***************************************************************************)
Content(type, text, id, name, arguments) ==
    [type |-> type, text |-> text, id |-> id, name |-> name,
     arguments |-> arguments]

TextContent(text) == Content("TEXT", text, "", "", "")

Message(role, content, tcs, toolCallId) ==
    [role |-> role, content |-> content, contentIsNull |-> FALSE,
     toolCalls |-> tcs, toolCallId |-> toolCallId]

FunctionCall(part) ==
    [type |-> "FUNCTION", id |-> part.toolCallId, name |-> part.toolName,
     arguments |-> InputArguments(part)]

\* part_003:1885-1974: the messages one prompt message becomes.
CohereV2Messages(msg) ==
    LET texts == PartsOfType(msg.parts, "text")
        nonEmpty == SelectSeq(texts, LAMBDA p : p.text # "")
        calls == PartsOfType(msg.parts, "tool-call")
        results == PartsOfType(msg.parts, "tool-result")
    IN CASE msg.role = "system" ->
              <<Message("SYSTEM", <<TextContent(msg.text)>>, <<>>, "")>>
         [] msg.role = "user" ->
              IF texts # <<>>
              THEN <<Message("USER",
                             [i \in 1..Len(texts) |-> TextContent(texts[i].text)],
                             <<>>, "")>>
              ELSE <<>>
         [] msg.role = "assistant" ->
              <<Message("ASSISTANT",
                        IF nonEmpty # <<>>
                        THEN [i \in 1..Len(nonEmpty) |->
                                 TextContent(nonEmpty[i].text)]
                        ELSE <<TextContent("")>>,
                        [i \in 1..Len(calls) |-> FunctionCall(calls[i])],
                        "")>>
         [] msg.role = "tool" ->
              [i \in 1..Len(results) |->
                  Message("TOOL",
                          <<TextContent(ResultText(results[i].output))>>,
                          <<>>, results[i].toolCallId)]
         [] OTHER -> <<>>

\* part_003:1876-1981
RECURSIVE convertMessagesToCohereV2Format(_)
convertMessagesToCohereV2Format(prompt) ==
    IF prompt = <<>> THEN <<>>
    ELSE CohereV2Messages(Head(prompt))
         \o convertMessagesToCohereV2Format(Tail(prompt))

\* part_003:1989-1993
IsXAI(id) == StartsWith(id, "xai.")

IsLlama(id) == StartsWith(id, "meta.llama")

IsGoogle(id) == StartsWith(id, "google.")

\* The families whose tool history is rewritten as text, xAI alone.
IsTextFallbackXAIOnly(id) == IsXAI(id)

\* part_003:2053, 2083, 2148: isXAI || isLlama
IsTextFallback(id) == IsXAI(id) \/ IsLlama(id)

\* part_003:2057
CalledTool(part) ==
    "[Called tool \"" \o part.toolName \o "\" with: " \o InputArguments(part)
    \o "]"

\* part_003:2069
CalledToolWithId(part) ==
    "[Called tool \"" \o part.toolName \o "\" (" \o part.toolCallId
    \o ") with: " \o InputArguments(part) \o "]"

\* part_003:2151: (part as any).toolName || 'tool'
ResultToolName(part) == IF part.toolName # "" THEN part.toolName ELSE "tool"

\* part_003:2156
ToolResultFrom(part) ==
    "[Tool result from \"" \o ResultToolName(part) \o "\": "
    \o ResultText(part.output) \o "]"

\* part_003:2196
ToolResultFromWithId(part) ==
    "[Tool result from \"" \o ResultToolName(part) \o "\" ("
    \o part.toolCallId \o "): " \o ResultText(part.output) \o "]"

\* part_003:2086-2093: the directives appended to the first text part, or
\* put in a new first text part.
WithDirectives(content, toolCallText) ==
    IF content # <<>> /\ content[1].type = "TEXT"
    THEN [content EXCEPT ![1].text = @ \o "\n" \o toolCallText]
    ELSE <<TextContent(toolCallText)>> \o content

\* part_003:2045-2080: the content array of an assistant message.
RECURSIVE AssistantContent(_, _)
AssistantContent(id, parts) ==
    IF parts = <<>> THEN <<>>
    ELSE LET part == Head(parts)
         IN (CASE part.type = "text" -> <<TextContent(part.text)>>
               [] part.type = "tool-call" /\ ~IsTextFallback(id) /\ ~IsGoogle(id) ->
                    <<Content("TOOL_CALL", "", part.toolCallId, part.toolName,
                              InputArguments(part))>>
               [] OTHER -> <<>>)
            \o AssistantContent(id, Tail(parts))

\* A native toolCalls array for any number of Google tool calls.
UseNativeToolCallsForAny(tcs) == Len(tcs) >= 1

\* part_003:2104: toolCalls.length === 1
UseNativeToolCalls(tcs) == Len(tcs) = 1

\* part_003:2040-2121
AssistantMessage(id, parts) ==
    LET calls == PartsOfType(parts, "tool-call")
        content0 == AssistantContent(id, parts)
        toolCallTexts ==
            Join([i \in 1..Len(calls) |->
                     IF IsTextFallback(id) THEN CalledTool(calls[i])
                     ELSE CalledToolWithId(calls[i])], "\n")
        content1 == IF IsTextFallback(id) /\ calls # <<>>
                    THEN WithDirectives(content0, toolCallTexts)
                    ELSE content0
        functionCalls == IF ~IsTextFallback(id) /\ IsGoogle(id)
                     THEN [i \in 1..Len(calls) |-> FunctionCall(calls[i])]
                     ELSE <<>>
        base == [Message("ASSISTANT", content1, <<>>, "")
                   EXCEPT !.contentIsNull = (content1 = <<>>)]
    IN CASE IsGoogle(id) /\ UseNativeToolCalls(functionCalls) ->
              [base EXCEPT !.toolCalls = functionCalls]
         [] IsGoogle(id) /\ Len(functionCalls) > 1 ->
              Message("ASSISTANT", WithDirectives(content1, toolCallTexts),
                      <<>>, "")
         [] OTHER -> base

\* part_003:2012-2034: the content array of a user message.
RECURSIVE UserContent(_)
UserContent(parts) ==
    IF parts = <<>> THEN <<>>
    ELSE (CASE Head(parts).type = "text" -> <<TextContent(Head(parts).text)>>
            [] Head(parts).type = "file" ->
                 <<Content("IMAGE", Head(parts).text, "", "", "")>>
            [] OTHER -> <<>>)
         \o UserContent(Tail(parts))

\* part_003:2122-2205: the messages a tool message becomes.
ToolMessages(id, parts) ==
    LET results == PartsOfType(parts, "tool-result")
    IN CASE IsTextFallback(id) ->
              [i \in 1..Len(results) |->
                  Message("USER", <<TextContent(ToolResultFrom(results[i]))>>,
                          <<>>, "")]
         [] IsGoogle(id) /\ Len(results) = 1 ->
              <<Message("TOOL", <<TextContent(ResultText(results[1].output))>>,
                        <<>>, results[1].toolCallId)>>
         [] IsGoogle(id) /\ Len(results) > 1 ->
              <<Message("USER",
                        [i \in 1..Len(results) |->
                            TextContent(ToolResultFromWithId(results[i]))],
                        <<>>, "")>>
         [] IsGoogle(id) -> <<>>
         [] OTHER ->
              [i \in 1..Len(results) |->
                  Message("TOOL", <<TextContent(ResultText(results[i].output))>>,
                          <<>>, results[i].toolCallId)]

\* part_003:1983-2209
RECURSIVE convertMessagesToGenericFormat(_, _)
convertMessagesToGenericFormat(id, prompt) ==
    IF prompt = <<>> THEN <<>>
    ELSE LET message == Head(prompt)
         IN (CASE message.role = "system" ->
                    <<Message("SYSTEM", <<TextContent(message.text)>>, <<>>, "")>>
               [] message.role = "user" ->
                    <<Message("USER", UserContent(message.parts), <<>>, "")>>
               [] message.role = "assistant" ->
                    <<AssistantMessage(id, message.parts)>>
               [] message.role = "tool" -> ToolMessages(id, message.parts)
               [] OTHER -> <<>>)
            \o convertMessagesToGenericFormat(id, Tail(prompt))

(***************************************************************************)
(* buildChatRequest.  A request carries every field of the three request   *)
(* formats; a field the builder leaves out is <<>>, "" or FALSE.           *)
(***************************************************************************)
NoRequest ==
    [apiFormat |-> "", message |-> "", chatHistory |-> <<>>, messages |-> <<>>,
     maxTokens |-> <<>>, temperature |-> <<>>, topP |-> <<>>,
     frequencyPenalty |-> <<>>, presencePenalty |-> <<>>, stop |-> <<>>,
     tools |-> <<>>, toolsChoice |-> "", toolResults |-> <<>>,
     isForceSingleStep |-> <<>>, thinking |-> <<>>, reasoningEffort |-> "",
     isStream |-> FALSE, isIncludeUsage |-> FALSE]

\* part_003:1407-1409
applyDefaults(value, defaultValue) ==
    IF value # <<>> THEN value ELSE <<defaultValue>>

\* this.swePreset.supportsTools && options.tools ? convert(options.tools)
\* : undefined, the converters returning undefined for an empty list.
ConvertedTools(preset, o) == IF preset.supportsTools THEN o.tools ELSE <<>>

\* part_003:1437-1445 and 1492-1500: budgetTokens && { budgetTokens }
Thinking(preset, o) ==
    IF preset.supportsReasoning
    THEN <<[type |-> "ENABLED",
            budgetTokens |-> IF o.thinkingBudgetTokens # <<>>
                                /\ o.thinkingBudgetTokens[1] # 0
                             THEN o.thinkingBudgetTokens ELSE <<>>]>>
    ELSE <<>>

\* The step-forcing flag never set.
HasToolResultsNever(toolResults) == FALSE

\* part_003:1420
HasToolResults(toolResults) == Len(toolResults) > 0

\* part_003:1411-1448
buildCohereChatRequest(id, o) ==
    LET preset == getSWEPreset(id)
        c == convertMessagesToCohereFormat(o.prompt)
        hasToolResults == HasToolResults(c.toolResults)
    IN [NoRequest EXCEPT
          !.apiFormat = "COHERE",
          !.message = c.message,
          !.chatHistory = c.chatHistory,
          !.maxTokens = o.maxOutputTokens,
          !.temperature = applyDefaults(o.temperature, preset.temperature),
          !.topP = applyDefaults(o.topP, preset.topP),
          !.frequencyPenalty =
              applyDefaults(o.frequencyPenalty, preset.frequencyPenalty),
          !.presencePenalty =
              applyDefaults(o.presencePenalty, preset.presencePenalty),
          !.tools = ConvertedTools(preset, o),
          !.toolResults = IF hasToolResults THEN c.toolResults ELSE <<>>,
          !.isForceSingleStep = IF hasToolResults THEN <<TRUE>> ELSE <<>>,
          !.thinking = Thinking(preset, o)]

\* part_003:1465-1477
ToolsChoice(tools, toolChoice) ==
    CASE tools = <<>> -> ""
      [] toolChoice = "none" -> "NONE"
      [] toolChoice \in {"required", "tool"} -> "REQUIRED"
      [] OTHER -> ""

\* part_003:1454-1507
buildCohereV2ChatRequest(id, o) ==
    LET preset == getSWEPreset(id)
        tools == ConvertedTools(preset, o)
    IN [NoRequest EXCEPT
          !.apiFormat = "COHEREV2",
          !.messages = convertMessagesToCohereV2Format(o.prompt),
          !.maxTokens = applyDefaults(o.maxOutputTokens, 4096),
          !.temperature = applyDefaults(o.temperature, preset.temperature),
          !.topP = applyDefaults(o.topP, preset.topP),
          !.frequencyPenalty =
              applyDefaults(o.frequencyPenalty, preset.frequencyPenalty),
          !.presencePenalty =
              applyDefaults(o.presencePenalty, preset.presencePenalty),
          !.tools = tools,
          !.toolsChoice = ToolsChoice(tools, o.toolChoice),
          !.thinking = Thinking(preset, o)]

\* Penalties sent whatever the descriptor says.
IncludePenaltiesAlways(preset) == TRUE

\* part_003:1533
IncludePenalties(preset) == preset.supportsPenalties

\* reasoningEffort sent to every vendor whose descriptor supports reasoning.
IncludeReasoningEffortAnyVendor(id, preset) == preset.supportsReasoning

\* part_003:1541
IncludeReasoningEffort(id, preset) ==
    preset.supportsReasoning /\ ~StartsWith(id, "xai.")

\* part_003:1545: reasoningEffort || 'MEDIUM'
ReasoningEffort(reasoningEffort) ==
    IF reasoningEffort # "" THEN reasoningEffort ELSE "MEDIUM"

\* part_003:1509-1549
buildGenericChatRequest(id, o) ==
    LET preset == getSWEPreset(id)
    IN [NoRequest EXCEPT
          !.apiFormat = "GENERIC",
          !.messages = convertMessagesToGenericFormat(id, o.prompt),
          !.maxTokens = o.maxOutputTokens,
          !.temperature = applyDefaults(o.temperature, preset.temperature),
          !.topP = applyDefaults(o.topP, preset.topP),
          !.stop = IF preset.supportsStopSequences THEN o.stopSequences
                   ELSE <<>>,
          !.tools = ConvertedTools(preset, o),
          !.frequencyPenalty =
              IF IncludePenalties(preset)
              THEN applyDefaults(o.frequencyPenalty, preset.frequencyPenalty)
              ELSE <<>>,
          !.presencePenalty =
              IF IncludePenalties(preset)
              THEN applyDefaults(o.presencePenalty, preset.presencePenalty)
              ELSE <<>>,
          !.reasoningEffort =
              IF IncludeReasoningEffort(id, preset)
              THEN ReasoningEffort(o.reasoningEffort) ELSE ""]

\* part_003:1392-1402
buildChatRequest(id, o) ==
    CASE getModelFamily(id) = "cohere-v2" -> buildCohereV2ChatRequest(id, o)
      [] getModelFamily(id) = "cohere" -> buildCohereChatRequest(id, o)
      [] OTHER -> buildGenericChatRequest(id, o)

\* part_003:1368-1380
buildStreamingChatRequest(id, o) ==
    [buildChatRequest(id, o) EXCEPT !.isStream = TRUE, !.isIncludeUsage = TRUE]

(***************************************************************************)
(* Inputs of the request builder: model ids, prompts and call options.     *)
(***************************************************************************)
ModelIds ==
    {"cohere.command-r-plus-08-2024", "cohere.command-r-reasoning",
     "cohere.command-a-03-2025", "cohere.command-a-reasoning-08-2025",
     "google.gemini-2.5-flash", "google.gemini-2.5-flash-lite",
     "xai.grok-4", "xai.grok-3-mini", "xai.grok-4-1-fast-reasoning",
     "xai.grok-4-1-fast-non-reasoning", "meta.llama-3.3-70b-instruct",
     "openai.gpt-oss-120b", "ocid1.generativeaiendpoint.oc1"}

User(text) == Msg("user", "", <<TextPart(text)>>)

System == Msg("system", "Be brief.", <<>>)

Assistant(parts) == Msg("assistant", "", parts)

Tool(parts) == Msg("tool", "", parts)

\* A tool call whose input is an object, and one whose input is a string.
Call1 == ToolCallPart("call_1", "read", "{\"path\":\"a\"}", FALSE)

Call2 == ToolCallPart("call_2", "grep", "{ \"q\": 1 }", TRUE)

\* A string input cut off before its value.
CallBad == ToolCallPart("call_3", "grep", "{\"q\":", TRUE)

Result1 == ToolResultPart("call_1", "read", [type |-> "text", value |-> "ok"])

Result2 ==
    ToolResultPart("call_2", "grep", [type |-> "json", value |-> "{\"n\":2}"])

ResultNone == ToolResultPart("call_1", "read", NoOutput)

ResultContent ==
    ToolResultPart("call_1", "read", [type |-> "content", value |-> "[]"])

Prompts ==
    { <<User("hi")>>,
      <<System, User("hi")>>,
      <<User("hi"), Assistant(<<TextPart("yo")>>), User("go")>>,
      <<Msg("user", "", <<TextPart("see"), FilePart("aGk=")>>)>>,
      <<User("hi"), Assistant(<<TextPart("yo"), Call1>>)>>,
      <<User("hi"), Assistant(<<Call1>>), Tool(<<Result1>>)>>,
      <<User("hi"), Assistant(<<TextPart("yo"), Call1>>), Tool(<<Result1>>)>>,
      <<System, User("hi"), Assistant(<<Call2>>), Tool(<<Result2>>)>>,
      <<User("hi"), Assistant(<<Call1>>), Tool(<<Result1>>),
        Assistant(<<TextPart("done")>>)>>,
      <<User("hi"), Assistant(<<Call1>>), Tool(<<Result1>>), User("go")>>,
      <<User("hi"), Assistant(<<Call1, Call2>>), Tool(<<Result1, Result2>>)>>,
      <<User("hi"), Assistant(<<TextPart("yo"), Call1, Call2>>),
        Tool(<<Result1, Result2>>), Assistant(<<TextPart("done")>>)>>,
      <<User("hi"), Assistant(<<Call1, TextPart("yo"), Call2>>),
        Tool(<<Result1, Result2>>), User("go")>>,
      <<User("hi"), Assistant(<<Call1>>), Tool(<<ResultNone>>)>>,
      <<User("hi"), Assistant(<<Call1>>), Tool(<<ResultContent>>)>>,
      <<User("hi"), Tool(<<Result1>>)>>,
      <<Tool(<<Result1>>), User("hi")>>,
      <<User("hi"), Assistant(<<CallBad>>), Tool(<<Result1>>)>> }

\* temperature, topP and the two penalties as the caller gives them.
Samplings ==
    { [temperature |-> <<>>, topP |-> <<>>, frequencyPenalty |-> <<>>,
       presencePenalty |-> <<>>],
      [temperature |-> <<0>>, topP |-> <<>>, frequencyPenalty |-> <<0>>,
       presencePenalty |-> <<0>>],
      [temperature |-> <<>>, topP |-> <<50>>, frequencyPenalty |-> <<1>>,
       presencePenalty |-> <<>>],
      [temperature |-> <<70>>, topP |-> <<50>>, frequencyPenalty |-> <<1>>,
       presencePenalty |-> <<1>>] }

\* tools and toolChoice as the caller gives them.
ToolOptions ==
    { [tools |-> <<>>, toolChoice |-> ""],
      [tools |-> <<"read">>, toolChoice |-> "auto"],
      [tools |-> <<"read", "grep">>, toolChoice |-> "required"],
      [tools |-> <<"read">>, toolChoice |-> "none"] }

\* providerOptions['oci-genai'] as the caller gives them.
ProviderOptions ==
    { [reasoningEffort |-> "", thinkingBudgetTokens |-> <<>>],
      [reasoningEffort |-> "HIGH", thinkingBudgetTokens |-> <<>>],
      [reasoningEffort |-> "", thinkingBudgetTokens |-> <<16000>>],
      [reasoningEffort |-> "LOW", thinkingBudgetTokens |-> <<0>>] }

Limits ==
    { [maxOutputTokens |-> <<>>, stopSequences |-> <<>>],
      [maxOutputTokens |-> <<256>>, stopSequences |-> <<"END">>] }

CallOptions ==
    { [prompt |-> p,
       maxOutputTokens |-> l.maxOutputTokens,
       stopSequences |-> l.stopSequences,
       temperature |-> s.temperature, topP |-> s.topP,
       frequencyPenalty |-> s.frequencyPenalty,
       presencePenalty |-> s.presencePenalty,
       tools |-> t.tools, toolChoice |-> t.toolChoice,
       reasoningEffort |-> po.reasoningEffort,
       thinkingBudgetTokens |-> po.thinkingBudgetTokens] :
        p \in Prompts, l \in Limits, s \in Samplings, t \in ToolOptions,
        po \in ProviderOptions }

(***************************************************************************)
(* The request built at the start of doGenerate and of doStream.           *)
(***************************************************************************)
RequestInit ==
    /\ pc = "building"
    /\ modelId \in ModelIds
    /\ options \in CallOptions
    /\ request = NoRequest
    /\ modelFamily = getModelFamily(modelId)
    /\ supportsReasoning = getSWEPreset(modelId).supportsReasoning
    /\ events = <<>>
    /\ textStarted = FALSE
    /\ reasoningStarted = FALSE
    /\ finishReason = "stop"
    /\ toolCalls = <<>>
    /\ toolCallsStarted = {}
    /\ genCount = 0
    /\ nRead = 0
    /\ flushAt = 0
    /\ buffer = ""
    /\ reference = <<>>
    /\ malformedAt = 0
    /\ response = R0
    /\ genResult = NoResult
    /\ schemaIn = <<>>
    /\ schemaOut = <<>>

requestFrame == <<modelFamily, supportsReasoning, events, textStarted,
                  reasoningStarted, finishReason, toolCalls,
                  toolCallsStarted, genCount, nRead, flushAt, buffer,
                  reference, malformedAt, response, genResult, schemaIn,
                  schemaOut, modelId, options>>

\* buildChatRequest throws: the legacy Cohere conversion hands a string
\* input of an assistant tool-call part to JSON.parse, outside any try.
buildChatRequestThrows(id, o) ==
    /\ getModelFamily(id) = "cohere"
    /\ \E i \in 1..Len(o.prompt) :
          /\ o.prompt[i].role = "assistant"
          /\ \E j \in 1..Len(o.prompt[i].parts) :
                LET part == o.prompt[i].parts[j]
                IN /\ part.type = "tool-call"
                   /\ part.inputIsString
                   /\ JSONParseThrows(part.input)

\* doGenerate: const chatRequest = this.buildChatRequest(options)
BuildChatRequest ==
    /\ pc = "building"
    /\ IF buildChatRequestThrows(modelId, options)
       THEN request' = NoRequest /\ pc' = "threw"
       ELSE request' = buildChatRequest(modelId, options) /\ pc' = "built"
    /\ UNCHANGED requestFrame

\* doStream: const chatRequest = this.buildStreamingChatRequest(options)
BuildStreamingChatRequest ==
    /\ pc = "building"
    /\ IF buildChatRequestThrows(modelId, options)
       THEN request' = NoRequest /\ pc' = "threw"
       ELSE /\ request' = buildStreamingChatRequest(modelId, options)
            /\ pc' = "built"
    /\ UNCHANGED requestFrame

RequestNext ==
    \/ BuildChatRequest
    \/ BuildStreamingChatRequest

SpecRequest == RequestInit /\ [][RequestNext]_vars

Built == pc = "built"

(***************************************************************************)
(* Properties of the built request.                                        *)
(***************************************************************************)
\* C11: a request built for a model whose capability descriptor has
\* supportsPenalties = FALSE carries neither frequencyPenalty nor
\* presencePenalty, whatever penalties the caller supplied.
NoPenaltiesWhenUnsupported ==
    (Built /\ ~getSWEPreset(modelId).supportsPenalties) =>
        /\ request.frequencyPenalty = <<>>
        /\ request.presencePenalty = <<>>

\* An xAI request whose caller supplied both penalties.
NoPenaltiesWhenUnsupportedWitness ==
    /\ Built
    /\ modelId = "xai.grok-4"
    /\ ~getSWEPreset(modelId).supportsPenalties
    /\ options.frequencyPenalty = <<1>>
    /\ options.presencePenalty = <<1>>
    /\ request.apiFormat = "GENERIC"
    /\ request.frequencyPenalty = <<>>
    /\ request.presencePenalty = <<>>

\* C12: a request built for a model id starting with "xai." never carries
\* reasoningEffort, even when the descriptor has supportsReasoning = TRUE and
\* the caller supplied a reasoningEffort.
NoReasoningEffortForXAI ==
    (Built /\ StartsWith(modelId, "xai.")) => request.reasoningEffort = ""

\* A reasoning variant of Grok called with reasoningEffort HIGH.
NoReasoningEffortForXAIWitness ==
    /\ Built
    /\ modelId = "xai.grok-4-1-fast-reasoning"
    /\ getSWEPreset(modelId).supportsReasoning
    /\ options.reasoningEffort = "HIGH"
    /\ request.reasoningEffort = ""

\* C13: for a non-xAI model whose descriptor has supportsReasoning = TRUE a
\* generic request carries reasoningEffort, the caller's when given and
\* MEDIUM otherwise, and a Cohere request carries thinking ENABLED with the
\* caller's budget when given; when supportsReasoning = FALSE the request
\* carries neither, whatever the caller supplied.
ReasoningParameterCarried ==
    (Built /\ ~StartsWith(modelId, "xai.")) =>
        IF getSWEPreset(modelId).supportsReasoning
        THEN IF getModelFamily(modelId) = "generic"
             THEN request.reasoningEffort =
                      (IF options.reasoningEffort # ""
                       THEN options.reasoningEffort ELSE "MEDIUM")
             ELSE /\ request.thinking # <<>>
                  /\ request.thinking[1].type = "ENABLED"
                  /\ options.thinkingBudgetTokens # <<>> =>
                        request.thinking[1].budgetTokens
                            = options.thinkingBudgetTokens
        ELSE /\ request.reasoningEffort = ""
             /\ request.thinking = <<>>

ToolCallsOf(msg) == PartsOfType(msg.parts, "tool-call")

ToolResultsOf(msg) == PartsOfType(msg.parts, "tool-result")

\* The prompt ends in a tool message carrying a result, and an earlier
\* assistant message carries a tool call.
EndsInResolvedToolMessage(prompt) ==
    /\ prompt # <<>>
    /\ Last(prompt).role = "tool"
    /\ ToolResultsOf(Last(prompt)) # <<>>
    /\ \E i \in 1..(Len(prompt) - 1) :
          prompt[i].role = "assistant" /\ ToolCallsOf(prompt[i]) # <<>>

WithoutToolMessages(prompt) == SelectSeq(prompt, LAMBDA m : m.role # "tool")

\* C14: the legacy Cohere request built from a prompt that ends in a tool
\* message resolving an earlier assistant tool call carries toolResults and
\* isForceSingleStep = true; the request built from the same prompt without
\* its tool messages carries neither.
StepForcingProtocol ==
    (Built /\ getModelFamily(modelId) = "cohere"
       /\ EndsInResolvedToolMessage(options.prompt)) =>
        /\ request.toolResults # <<>>
        /\ request.isForceSingleStep = <<TRUE>>
        /\ LET r == buildChatRequest(modelId,
                       [options EXCEPT !.prompt = WithoutToolMessages(@)])
           IN r.toolResults = <<>> /\ r.isForceSingleStep = <<>>

\* A legacy Cohere request carrying the two results of a tool message.
StepForcingProtocolWitness ==
    /\ Built
    /\ getModelFamily(modelId) = "cohere"
    /\ EndsInResolvedToolMessage(options.prompt)
    /\ Len(request.toolResults) = 2
    /\ request.isForceSingleStep = <<TRUE>>

HasToolResultPart(prompt) ==
    \E i \in 1..Len(prompt) : ToolResultsOf(prompt[i]) # <<>>

\* C15: the legacy Cohere request built from a prompt holding a tool-result
\* part, wherever it is and whether or not an assistant tool call precedes
\* it, has isForceSingleStep = true.
ForceSingleStepWheneverToolResult ==
    (Built /\ getModelFamily(modelId) = "cohere"
       /\ HasToolResultPart(options.prompt)) =>
        request.isForceSingleStep = <<TRUE>>

\* The number of built messages that come from the first i prompt messages.
BuiltUpTo(id, prompt, i) ==
    Len(convertMessagesToGenericFormat(id, SubSeq(prompt, 1, i)))

\* The text of a built message: its text parts, one per line.
TextOf(m) ==
    LET ts == SelectSeq(m.content, LAMBDA c : c.type = "TEXT")
    IN Join([i \in 1..Len(ts) |-> ts[i].text], "\n")

\* The built message holds a directive naming this call and its arguments.
HasDirectiveFor(m, call) ==
    /\ Includes(TextOf(m), "[Called tool \"" \o call.toolName \o "\"")
    /\ Includes(TextOf(m), " with: " \o call.input \o "]")

\* C16: for a google.* model an assistant turn with exactly one tool-call
\* part becomes a message with a one-element toolCalls array and no
\* [Called tool ...] directive; a turn with two or more tool-call parts
\* becomes a message without toolCalls whose text holds one directive per
\* call.
GoogleToolCallHistory ==
    (Built /\ IsGoogle(modelId)) =>
        \A i \in 1..Len(options.prompt) :
            options.prompt[i].role = "assistant" =>
                LET calls == ToolCallsOf(options.prompt[i])
                    m == request.messages[BuiltUpTo(modelId, options.prompt, i)]
                IN /\ m.role = "ASSISTANT"
                   /\ Len(calls) = 1 =>
                         /\ Len(m.toolCalls) = 1
                         /\ m.toolCalls[1].id = calls[1].toolCallId
                         /\ m.toolCalls[1].name = calls[1].toolName
                         /\ Occurrences(TextOf(m), "[Called tool") = 0
                   /\ Len(calls) >= 2 =>
                         /\ m.toolCalls = <<>>
                         /\ Occurrences(TextOf(m), "[Called tool") = Len(calls)
                         /\ \A k \in 1..Len(calls) : HasDirectiveFor(m, calls[k])

\* A Gemini request whose history holds an assistant turn with two calls.
GoogleToolCallHistoryWitness ==
    /\ Built
    /\ IsGoogle(modelId)
    /\ \E i \in 1..Len(options.prompt) :
          /\ options.prompt[i].role = "assistant"
          /\ Len(ToolCallsOf(options.prompt[i])) = 2
          /\ LET m == request.messages[BuiltUpTo(modelId, options.prompt, i)]
             IN /\ m.toolCalls = <<>>
                /\ Occurrences(TextOf(m), "[Called tool") = 2

\* C17: for a model id starting with xai. or meta.llama the built messages
\* hold no TOOL message, no TOOL_CALL part and no toolCalls array; every
\* assistant tool-call part is a [Called tool "<name>" with: <json-args>]
\* directive in the text of its assistant message, and every tool-result part
\* is a USER message [Tool result from "<name>": <text>].
TextFallbackHistory ==
    (Built /\ (StartsWith(modelId, "xai.") \/ StartsWith(modelId, "meta.llama"))) =>
        /\ \A j \in 1..Len(request.messages) :
              /\ request.messages[j].role # "TOOL"
              /\ request.messages[j].toolCalls = <<>>
              /\ \A k \in 1..Len(request.messages[j].content) :
                    request.messages[j].content[k].type # "TOOL_CALL"
        /\ \A i \in 1..Len(options.prompt) :
              LET msg == options.prompt[i]
                  calls == ToolCallsOf(msg)
                  results == ToolResultsOf(msg)
                  n == BuiltUpTo(modelId, options.prompt, i)
                  n0 == BuiltUpTo(modelId, options.prompt, i - 1)
              IN /\ msg.role = "assistant" =>
                       /\ request.messages[n].role = "ASSISTANT"
                       /\ \A k \in 1..Len(calls) :
                             Includes(TextOf(request.messages[n]),
                                      "[Called tool \"" \o calls[k].toolName
                                      \o "\" with: " \o calls[k].input \o "]")
                 /\ msg.role = "tool" =>
                       /\ n = n0 + Len(results)
                       /\ \A k \in 1..Len(results) :
                             /\ request.messages[n0 + k].role = "USER"
                             /\ TextOf(request.messages[n0 + k]) =
                                   "[Tool result from \"" \o results[k].toolName
                                   \o "\": " \o ResultText(results[k].output)
                                   \o "]"

\* A Llama request whose history holds two tool calls and their results.
TextFallbackHistoryWitness ==
    /\ Built
    /\ StartsWith(modelId, "meta.llama")
    /\ \E i \in 1..Len(options.prompt) :
          /\ options.prompt[i].role = "tool"
          /\ Len(ToolResultsOf(options.prompt[i])) = 2
    /\ \E j \in 1..Len(request.messages) :
          /\ request.messages[j].role = "ASSISTANT"
          /\ Occurrences(TextOf(request.messages[j]), "[Called tool") = 2
    /\ \E j \in 1..Len(request.messages) :
          /\ request.messages[j].role = "USER"
          /\ StartsWith(TextOf(request.messages[j]), "[Tool result from \"grep\"")

\* The prompt without its system messages is a user turn, an assistant turn
\* with tool calls, a tool turn with one result per call, and then an
\* assistant or a user turn.
FollowsTurnOrder(prompt) ==
    LET p == SelectSeq(prompt, LAMBDA m : m.role # "system")
    IN /\ Len(p) = 4
       /\ p[1].role = "user"
       /\ p[2].role = "assistant"
       /\ ToolCallsOf(p[2]) # <<>>
       /\ p[3].role = "tool"
       /\ Len(ToolResultsOf(p[3])) = Len(ToolCallsOf(p[2]))
       /\ p[4].role \in {"assistant", "user"}

\* C18: for a text-fallback model and a prompt that follows the
\* tool-calling turn order, the built messages without the SYSTEM ones
\* alternate between USER and ASSISTANT: no two neighbours have the same
\* role.
TextFallbackAlternates ==
    (Built /\ (StartsWith(modelId, "xai.") \/ StartsWith(modelId, "meta.llama"))
       /\ FollowsTurnOrder(options.prompt)) =>
        LET ms == SelectSeq(request.messages, LAMBDA m : m.role # "SYSTEM")
        IN /\ \A j \in 1..Len(ms) : ms[j].role \in {"USER", "ASSISTANT"}
           /\ \A j \in 1..(Len(ms) - 1) : ms[j].role # ms[j + 1].role

(***************************************************************************)
(* Properties of the content doGenerate returns.                           *)
(***************************************************************************)
\* C19: the content doGenerate returns holds no text block whose text is
\* empty, whether the response carried its text as an array of typed
\* parts, as a bare string or in the text field.
NoEmptyTextBlock ==
    pc = "returned" =>
        \A i \in 1..Len(genResult.content) :
            genResult.content[i].type = "text" =>
                genResult.content[i].text # <<>>

\* C20: the content doGenerate returns holds a reasoning block only when
\* the descriptor has supportsReasoning = TRUE, and every reasoning block
\* comes before every text block, whatever the order of the THINKING and
\* TEXT parts of the response.
ReasoningLeadsWhenSupported ==
    pc = "returned" =>
        /\ ~supportsReasoning =>
              \A i \in 1..Len(genResult.content) :
                  genResult.content[i].type # "reasoning"
        /\ \A i, j \in 1..Len(genResult.content) :
              (genResult.content[i].type = "reasoning"
                 /\ genResult.content[j].type = "text") => i < j

\* C21: once the abort signal of a doGenerate call is aborted (it was
\* aborted when the call was made, or it fired while client.chat was
\* pending), the call ends cancelled: it neither returns a result nor
\* rejects with the transport error.
AbortedGenerateIsCancelled ==
    (pc # "calling" /\ options.abortSignal = "aborted") => pc = "cancelled"

\* The state of handleSSEStream is that of the reference run.
AsReference ==
    /\ events = reference.out
    /\ textStarted = reference.ts
    /\ reasoningStarted = reference.rs
    /\ finishReason = reference.fr
    /\ toolCalls = reference.tcs
    /\ toolCallsStarted = reference.started
    /\ genCount = reference.gen

\* C22: a data line whose payload does not parse is skipped: while the SSE
\* stream is read, and once it has closed, the events emitted and the state
\* kept are those of the run that was never delivered the malformed lines,
\* no event is an error event, and the closed stream ends with finish.
MalformedLineSkipped ==
    /\ pc = "sse" => (AsReference /\ CountType(events, "error") = 0)
    /\ (pc = "closed" /\ flushAt > 0) =>
          /\ AsReference
          /\ CountType(events, "error") = 0
          /\ Last(events).type = "finish"

\* A closed stream whose first line was a malformed data line, and in which
\* a later line emitted a text delta.
MalformedLineSkippedWitness ==
    /\ pc = "closed"
    /\ flushAt > 0
    /\ malformedAt = 1
    /\ nRead > 1
    /\ CountType(events, "text-delta") > 0
    /\ Last(events).type = "finish"

\* C23: while an SSE stream is parsed and after it has closed, no point of
\* the emitted stream has the text span and the reasoning span both open,
\* and neither span is started a second time.
OneSpanAtATime ==
    (pc = "sse" \/ (pc = "closed" /\ flushAt > 0)) =>
        /\ \A n \in 1..Len(events) :
              ~ /\ OpenIn(SubSeq(events, 1, n), "text", textId)
                /\ OpenIn(SubSeq(events, 1, n), "reasoning", reasoningId)
        /\ Count(events, "text-start", textId) <= 1
        /\ Count(events, "reasoning-start", reasoningId) <= 1

\* The span kind a delta event belongs to.
DeltaKind(type) ==
    CASE type = "text-delta" -> "text"
      [] type = "reasoning-delta" -> "reasoning"
      [] OTHER -> "tool-input"

\* C24: every text-delta, reasoning-delta and tool-input-delta of an
\* emitted stream carries an id whose span is open where the delta stands:
\* its -start precedes the delta and no -end of it lies in between.
DeltaInsideOpenSpan ==
    \A i \in 1..Len(events) :
        events[i].type \in {"text-delta", "reasoning-delta", "tool-input-delta"}
            => OpenIn(SubSeq(events, 1, i - 1), DeltaKind(events[i].type),
                      events[i].id)

\* C25: in the legacy Cohere conversion of a prompt whose only tool message
\* follows an assistant turn with the calls c1..cn and carries k <= n
\* results, the i-th toolResults entry names call ci and its parameters.
CohereResultsInTurnOrder ==
    (Built /\ getModelFamily(modelId) = "cohere") =>
        LET prompt == options.prompt
            entries == convertMessagesToCohereFormat(prompt).toolResults
        IN \A j \in 2..Len(prompt) :
              LET calls == CohereToolCalls(prompt[j - 1].parts)
                  results == ToolResultsOf(prompt[j])
              IN (/\ prompt[j].role = "tool"
                  /\ prompt[j - 1].role = "assistant"
                  /\ \A m \in 1..Len(prompt) : prompt[m].role = "tool" => m = j
                  /\ Len(results) <= Len(calls))
                 => /\ Len(entries) = Len(results)
                    /\ \A i \in 1..Len(results) :
                          /\ entries[i].name = calls[i].name
                          /\ entries[i].parameters = calls[i].parameters

\* C26: building the request never raises, whatever the prompt holds: a
\* tool result without an earlier tool call, a tool result without output,
\* or an assistant tool call whose string input is not valid JSON.
BuildersNeverRaise == pc # "threw"

\* The payloads of the events of the given type, concatenated in order.
RECURSIVE Payloads(_, _)
Payloads(log, type) ==
    IF log = <<>> THEN <<>>
    ELSE (IF Head(log).type = type THEN Head(log).delta ELSE <<>>)
         \o Payloads(Tail(log), type)

ReasoningSpanTypes == {"reasoning-start", "reasoning-delta", "reasoning-end"}

TextSpanTypes == {"text-start", "text-delta", "text-end"}

\* The stream was simulated from a complete response.
Simulated == pc = "closed" /\ flushAt = 0

ArgumentNamesKept ==
    (pc = "cleaned" /\ Has(schemaIn, "properties")
        /\ Get(schemaIn, "properties").t = "obj") =>
        /\ Has(schemaOut, "properties")
        /\ LET in == Get(schemaIn, "properties")
               out == Get(schemaOut, "properties")
           IN /\ \A i \in 1..Len(in.kids) : Has(out, in.kids[i].k)
              /\ (Has(schemaIn, "required") /\ Has(schemaOut, "required")) =>
                    \A j \in 1..Len(Get(schemaOut, "required").kids) :
                        LET name == Get(schemaOut, "required").kids[j].v.s
                        IN Has(in, name) => Has(out, name)

\* C29: in a doGenerate result of the generic family no two tool-call
\* blocks carry the same toolCallId.
GenericToolCallsOnce ==
    (pc = "returned" /\ modelFamily = "generic") =>
        \A i \in 1..Len(genResult.content) : \A j \in 1..Len(genResult.content) :
            (/\ genResult.content[i].type = "tool-call"
             /\ genResult.content[j].type = "tool-call"
             /\ genResult.content[i].id = genResult.content[j].id) => i = j

\* C30: when an SSE stream has closed after the transport reported done,
\* no whole data line is left unprocessed in buffer: a final data line
\* that lacks its newline has been handled before finish like any other.
NoCompleteLineLeftInBuffer ==
    (pc = "closed" /\ flushAt > 0) => buffer # "line"

====
